---- MODULE Spec2Model ----
(***************************************************************************)
(* A model of vlt (github.com/ethanadams/vlt): the snapshot reconciler     *)
(* (RestoreSnapshot) and the directory history reader                      *)
(* (GetStateAtChangesAgo) of package vault, running against a Vault KV v2  *)
(* store.                                                                  *)
(*                                                                         *)
(* The store is seen through the calls the client makes: a list of secret  *)
(* paths, a metadata read (current version, version history), a data read, *)
(* a write that makes a new version, and a metadata delete that removes    *)
(* the secret and its versions.  Every store call may fail.                *)
(***************************************************************************)
EXTENDS Integers, Sequences, FiniteSets, TLC

\* ------------------------------------------------------------------ bounds

\* The highest version another client's write may produce before a restore;
\* a snapshot file may record one version more.
MaxVersion == 1
\* How many store operations the concurrent writer performs in SpecConc.
MaxWriterOps == 2
\* How many versions are written to the directory whose history is read.
MaxClock == 5
\* How many versions of the directory are deleted or destroyed.
MaxRemoved == 1
\* How many characters a path given to ParseVersionedPath has.
MaxPathLen == 4
\* The highest version a secret of the second mount reaches.
MaxSecretVersion == 2

\* ------------------------------------------------------------------ values

\* A Go value of type any, as JSON and YAML carry it: a string, a number
\* (json.Number, kept as its text), nil, or a map[string]any whose entries
\* are kept sorted by key.  NilMap is a nil map[string]any, which is what
\* readSecret returns when the store holds no data at the path.
Str(s) == [t |-> "str", s |-> s, m |-> <<>>]
Num(s) == [t |-> "num", s |-> s, m |-> <<>>]
Nil == [t |-> "nil", s |-> "", m |-> <<>>]
NilMap == [t |-> "nilmap", s |-> "", m |-> <<>>]
MapOf(entries) == [t |-> "map", s |-> "", m |-> entries]

IsMap(v) == v.t \in {"map", "nilmap"}

\* map[string]any{"value": v}
Wrap(v) == MapOf(<< <<"value", v>> >>)

\* v, ok := data["value"]; ok && len(data) == 1
HasOnlyValue(d) == d.t = "map" /\ Len(d.m) = 1 /\ d.m[1][1] = "value"

\* fmt.Sprintf("%v", v): a string prints as itself, a json.Number as its
\* text, nil as <nil>, a map as map[k1:v1 k2:v2] with its keys sorted.
RECURSIVE Sprintf(_)
RECURSIVE SprintEntries(_, _)
SprintEntries(entries, i) ==
    IF i > Len(entries) THEN ""
    ELSE (IF i > 1 THEN " " ELSE "") \o entries[i][1] \o ":"
         \o Sprintf(entries[i][2]) \o SprintEntries(entries, i + 1)

Sprintf(v) ==
    CASE v.t = "str" -> v.s
      [] v.t = "num" -> v.s
      [] v.t = "nil" -> "<nil>"
      [] OTHER -> "map[" \o SprintEntries(v.m, 1) \o "]"

\* ------------------------------------------------------------------ inputs

\* Relative secret paths under the target directory.
Keys == {"a", "b", "c"}

S1 == Str("1")
S2 == Str("2")
S3 == Str("3")
N1 == Num("1")

\* The secret data other clients write at a path.  Path a also gets a
\* number (a JSON client wrote 1, not "1") and a value that is itself a
\* map with the one field "value".
ClientData(k) ==
    CASE k = "a" -> {Wrap(S1), Wrap(N1), Wrap(Wrap(S1))}
      [] k = "b" -> {Wrap(S2)}
      [] OTHER -> {Wrap(S3)}

\* The values a snapshot file holds for a path; path c is in no file.
FileValues(k) ==
    CASE k = "a" -> {S1, Wrap(S1)}
      [] k = "b" -> {S2}
      [] OTHER -> {}

\* RestoreOptions
Options == [DryRun : BOOLEAN, Verify : BOOLEAN, DeleteExtra : BOOLEAN]

\* ------------------------------------------------------------------- state

VARIABLES
    live,        \* the store: path -> [data, version], version 0 = no secret
    snapshot,    \* Snapshot.Secrets: path -> [in, Value, Version]
    opts,        \* RestoreOptions of the running restore
    pc,          \* where RestoreSnapshot stands
    currentSet,  \* currentSet of RestoreSnapshot
    todo,        \* snapshot paths the range loop has not visited yet
    relPath,     \* the loop's relPath
    exists,      \* the loop's exists
    result,      \* RestoreResult
    run,         \* 0: no restore, 1: first run, 2: re-run of the same snapshot
    prev,        \* what the first run did, kept for the re-run
    startLive,   \* the store when the running restore started
    failed,      \* a store call has failed in the running restore
    writerOps,   \* operations the concurrent writer has performed
    changed,     \* paths the writer has written since the snapshot was captured
    raced,       \* path -> what the writer last did to it while the restore ran
    hist,        \* the store's version history: path -> sequence of versions
    clock,       \* created_time of the latest version written
    query,       \* the last history query and what it returned
    tree,        \* a second mount of the store: path -> [data, version]
    op           \* client -> the vlt operation the client is running

restoreVars == <<snapshot, opts, pc, currentSet, todo, relPath, exists, result,
                 run, prev, startLive, failed>>
writerVars == <<writerOps, changed, raced>>
histVars == <<hist, clock, query>>
opsVars == <<tree, op>>
vars == <<live, restoreVars, writerVars, histVars, opsVars>>

NoSecret == [data |-> NilMap, version |-> 0]
NoEntry == [in |-> FALSE, Value |-> Nil, Version |-> 0]
NoSnapshot == [k \in Keys |-> NoEntry]
NoResult == [Added |-> {}, Updated |-> {}, Deleted |-> {}, Unchanged |-> {},
             Skipped |-> {}]
NoOptions == [DryRun |-> FALSE, Verify |-> FALSE, DeleteExtra |-> FALSE]
NoPrev == [result |-> NoResult, opts |-> NoOptions, failed |-> FALSE, pc |-> "idle",
           applied |-> FALSE]
\* raced[k]: NilMap for a path the writer left alone, Nil for a path it
\* deleted, else the data it wrote.
NoRaced == [k \in Keys |-> NilMap]

SnapshotKeys(s) == {k \in Keys : s[k].in}
LiveKeys(l) == {k \in Keys : l[k].version > 0}

\* The snapshot files a restore may be given; a snapshot holds a secret
\* (CreateSnapshot refuses an empty directory).
Snapshots ==
    {s \in [Keys -> [in : BOOLEAN, Value : UNION {FileValues(k) : k \in Keys} \cup {Nil},
                     Version : 0..(MaxVersion + 1)]] :
        /\ \E k \in Keys : s[k].in
        /\ \A k \in Keys :
            IF s[k].in THEN s[k].Value \in FileValues(k) /\ s[k].Version >= 1
            ELSE s[k] = NoEntry}

\* ------------------------------------------------------------ store calls

\* ListSecretPaths: the paths that hold a secret.
ListSecretPaths(l) == {k \in Keys : l[k].version > 0}

\* readSecret: the data of the current version, a nil map when there is none.
ReadSecretRaw(l, k) == IF l[k].version > 0 THEN l[k].data ELSE NilMap

\* WriteSecret without check-and-set: the write always makes the next version.
WriteSecret(l, k, d) ==
    [l EXCEPT ![k] = [data |-> d, version |-> l[k].version + 1]]

\* DeleteSecret deletes the metadata: every version goes, and a later write
\* starts again at version 1.
DeleteSecret(l, k) == [l EXCEPT ![k] = NoSecret]

\* -------------------------------------------------------- RestoreSnapshot

\* opts.Verify && exists
NeedsVerify(o, ex) == o.Verify /\ ex

\* err == nil && metadata.CurrentVersion != snapshotSecret.Version
VersionMismatch(ok, currentVersion, entry) ==
    ok /\ currentVersion # entry.Version

\* The snapshot value as it is compared: a map with the one field "value"
\* is replaced by that field.
SnapshotValue(v) == IF HasOnlyValue(v) THEN v.m[1][2] ELSE v

\* The live data as it is compared.
CurrentValue(d) == IF HasOnlyValue(d) THEN d.m[1][2] ELSE d

\* Mutant of ValuesEqual: the live data is compared with the snapshot value
\* as stored, not with the two printed forms.
ValuesEqualUnprinted(d, v) == d = v

\* fmt.Sprintf("%v", currentValue) == fmt.Sprintf("%v", snapshotValue)
ValuesEqual(d, v) == Sprintf(CurrentValue(d)) = Sprintf(SnapshotValue(v))

\* Mutant of RestoreData: every value is wrapped, a map too.
RestoreDataWrapped(v) == Wrap(v)

\* The data RestoreSnapshot writes: a map value as it is, any other value
\* wrapped in {"value": ...}.
RestoreData(v) == IF IsMap(v) THEN v ELSE Wrap(v)

\* Mutant of Applies: the dry-run option is not looked at.
AppliesAlways(o) == TRUE

\* !opts.DryRun
Applies(o) == ~o.DryRun

\* Mutant of DeletesExtra: the no-delete option is not looked at.
DeletesExtraAlways(o) == TRUE

\* opts.DeleteExtra
DeletesExtra(o) == o.DeleteExtra

Classify(res, list, k) == [res EXCEPT ![list] = @ \cup {k}]

\* A store call succeeds or fails; the re-run meets no failure.
CallOutcomes == IF run = 1 THEN BOOLEAN ELSE {TRUE}
Count(ok) == failed' = (failed \/ ~ok)

\* The loop body is left towards the write or towards the next path.
AfterClassify == IF Applies(opts) THEN "write" ELSE "loop"

\* currentPaths, err := c.ListSecretPaths(ctx, targetPath); an error is
\* taken for an empty directory.
RestoreList ==
    /\ pc = "list"
    /\ \E ok \in CallOutcomes :
        /\ currentSet' = IF ok THEN ListSecretPaths(live) ELSE {}
        /\ Count(ok)
    /\ todo' = SnapshotKeys(snapshot)
    /\ pc' = "loop"
    /\ UNCHANGED <<live, snapshot, opts, relPath, exists, result, run, prev,
                   startLive, writerVars, histVars, opsVars>>

\* for relPath, snapshotSecret := range snapshot.Secrets, up to the first
\* store call of the body; Go visits the map in any order.
RestoreNext ==
    /\ pc = "loop"
    /\ todo # {}
    /\ \E k \in todo :
        /\ relPath' = k
        /\ todo' = todo \ {k}
        /\ exists' = (k \in currentSet)
        /\ currentSet' = currentSet \ {k}
        /\ IF NeedsVerify(opts, k \in currentSet)
           THEN pc' = "verify" /\ UNCHANGED result
           ELSE IF k \in currentSet
           THEN pc' = "read" /\ UNCHANGED result
           ELSE /\ result' = Classify(result, "Added", k)
                /\ pc' = AfterClassify
    /\ UNCHANGED <<live, snapshot, opts, run, prev, startLive, failed,
                   writerVars, histVars, opsVars>>

\* metadata, err := c.GetMetadata(ctx, fullPath) and the version check.
\* GetMetadata returns nil, nil for a path without metadata, and the check
\* then dereferences nil: the process panics.
RestoreVerify ==
    /\ pc = "verify"
    /\ \E ok \in CallOutcomes :
        /\ Count(ok)
        /\ IF ok /\ live[relPath].version = 0
           THEN pc' = "panic" /\ UNCHANGED result
           ELSE IF VersionMismatch(ok, live[relPath].version, snapshot[relPath])
           THEN /\ result' = Classify(result, "Skipped", relPath)
                /\ pc' = "loop"
           ELSE pc' = "read" /\ UNCHANGED result
    /\ UNCHANGED <<live, snapshot, opts, currentSet, todo, relPath, exists, run,
                   prev, startLive, writerVars, histVars, opsVars>>

\* currentData, err := c.ReadSecretRaw(ctx, fullPath) and the comparison; a
\* failed read counts as a difference.
RestoreRead ==
    /\ pc = "read"
    /\ \E ok \in CallOutcomes :
        /\ Count(ok)
        /\ IF ok /\ ValuesEqual(ReadSecretRaw(live, relPath), snapshot[relPath].Value)
           THEN /\ result' = Classify(result, "Unchanged", relPath)
                /\ pc' = "loop"
           ELSE /\ result' = Classify(result, "Updated", relPath)
                /\ pc' = AfterClassify
    /\ UNCHANGED <<live, snapshot, opts, currentSet, todo, relPath, exists, run,
                   prev, startLive, writerVars, histVars, opsVars>>

\* c.WriteSecret(ctx, fullPath, ...); a failed write ends the run with an
\* error.
RestoreWrite ==
    /\ pc = "write"
    /\ \E ok \in CallOutcomes :
        /\ Count(ok)
        /\ IF ok
           THEN /\ live' = WriteSecret(live, relPath, RestoreData(snapshot[relPath].Value))
                /\ pc' = "loop"
           ELSE pc' = "error" /\ UNCHANGED live
    /\ UNCHANGED <<snapshot, opts, currentSet, todo, relPath, exists, result, run,
                   prev, startLive, writerVars, histVars, opsVars>>

\* The end of the range loop: on to the paths left in currentSet, or return.
RestoreLoopEnd ==
    /\ pc = "loop"
    /\ todo = {}
    /\ pc' = IF DeletesExtra(opts) THEN "extra" ELSE "done"
    /\ UNCHANGED <<live, snapshot, opts, currentSet, todo, relPath, exists, result,
                   run, prev, startLive, failed, writerVars, histVars, opsVars>>

\* for relPath := range currentSet: Deleted is appended to, then the secret
\* is deleted; a failed delete ends the run with an error.
RestoreDelete ==
    /\ pc = "extra"
    /\ currentSet # {}
    /\ \E k \in currentSet :
        /\ relPath' = k
        /\ currentSet' = currentSet \ {k}
        /\ result' = Classify(result, "Deleted", k)
        /\ IF Applies(opts)
           THEN \E ok \in CallOutcomes :
                /\ Count(ok)
                /\ IF ok
                   THEN live' = DeleteSecret(live, k) /\ pc' = "extra"
                   ELSE pc' = "error" /\ UNCHANGED live
           ELSE UNCHANGED <<live, pc, failed>>
    /\ UNCHANGED <<snapshot, opts, todo, exists, run, prev, startLive,
                   writerVars, histVars, opsVars>>

\* return result, nil
RestoreReturn ==
    /\ pc = "extra"
    /\ currentSet = {}
    /\ pc' = "done"
    /\ UNCHANGED <<live, snapshot, opts, currentSet, todo, relPath, exists, result,
                   run, prev, startLive, failed, writerVars, histVars, opsVars>>

RestoreStep ==
    \/ RestoreList
    \/ RestoreNext
    \/ RestoreVerify
    \/ RestoreRead
    \/ RestoreWrite
    \/ RestoreLoopEnd
    \/ RestoreDelete
    \/ RestoreReturn

\* ---------------------------------------------------------- other clients

IdleRestore ==
    /\ pc' = "idle"
    /\ snapshot' = NoSnapshot
    /\ opts' = NoOptions
    /\ currentSet' = {}
    /\ todo' = {}
    /\ relPath' = ""
    /\ exists' = FALSE
    /\ result' = NoResult
    /\ run' = 0
    /\ prev' = NoPrev
    /\ startLive' = [k \in Keys |-> NoSecret]
    /\ failed' = FALSE

\* Another client writes a secret while no snapshot is held.
ExternalWrite(k, d) ==
    /\ pc = "idle"
    /\ snapshot = NoSnapshot
    /\ live[k].version < MaxVersion
    /\ live' = WriteSecret(live, k, d)
    /\ UNCHANGED <<restoreVars, writerVars, histVars, opsVars>>

\* Another client deletes a secret while no snapshot is held.
ExternalDelete(k) ==
    /\ pc = "idle"
    /\ snapshot = NoSnapshot
    /\ live[k].version > 0
    /\ live' = DeleteSecret(live, k)
    /\ UNCHANGED <<restoreVars, writerVars, histVars, opsVars>>

\* --------------------------------------------------------------- restores

StartRun(s, o, n) ==
    /\ snapshot' = s
    /\ opts' = o
    /\ pc' = "list"
    /\ currentSet' = {}
    /\ todo' = {}
    /\ relPath' = ""
    /\ exists' = FALSE
    /\ result' = NoResult
    /\ run' = n
    /\ startLive' = live
    /\ failed' = FALSE

\* vlt restore <file> <path>: RestoreSnapshot is called with a snapshot
\* loaded from a file and the options of the command line.  Restores start
\* from the stores other clients made, which keeps the versions bounded.
Restore(s, o) ==
    /\ pc = "idle"
    /\ snapshot = NoSnapshot
    /\ \A k \in Keys : live[k].version <= MaxVersion
    /\ StartRun(s, o, 1)
    /\ prev' = NoPrev
    /\ UNCHANGED <<live, writerVars, histVars, opsVars>>

\* The same restore is run again with nothing written in between: after a
\* run that returned with no store call failed (a preview is followed by
\* the real run), or after a run that ended with an error.  Every store
\* call of the second run succeeds.
Rerun ==
    /\ run = 1
    /\ \/ pc = "done" /\ ~failed
       \/ pc = "error"
    /\ prev' = [result |-> result, opts |-> opts, failed |-> failed, pc |-> pc,
                applied |-> (live # startLive)]
    /\ StartRun(snapshot, [opts EXCEPT !.DryRun = FALSE], 2)
    /\ UNCHANGED <<live, writerVars, histVars, opsVars>>

\* The command has returned and its snapshot is dropped.
Finish ==
    /\ pc \in {"done", "error", "panic"}
    /\ IdleRestore
    /\ writerOps' = 0
    /\ changed' = {}
    /\ raced' = NoRaced
    /\ UNCHANGED <<live, histVars, opsVars>>

\* ------------------------------------------------------------------ specs

\* The secrets of the directory whose history is read.
HistKeys == {"a", "b"}
NoHistory == [k \in HistKeys |-> <<>>]
NoVersions == [k \in HistKeys |-> 0]
\* query: the call (op) and whether it has returned (pc), its argument (n), the store call that
\* failed (fail), the error returned (err), secretCurrentVersions (cur),
\* secretVersionsAtPoint after the walk (at) and, for every path of the
\* result, the version whose data it holds (result; 0 for a path left out);
\* reads is the set of paths a version of which was asked of the store.
\* timeline is what GetTimeline returns.  For a path given on the command
\* line, input is the path as typed, path and spec are what
\* ParseVersionedPath makes of it, and calls are the store calls issued.
\* For a comparison, secrets1 and secrets2 are the two flat maps and diff
\* is the DiffResult.
NoDiff == [OnlyInFirst |-> <<>>, OnlyInSecond |-> <<>>, Changed |-> <<>>,
           Unchanged |-> 0]
NoVersionSpec == [Version |-> 0, IsPrev |-> FALSE, IsChangesAgo |-> FALSE,
                  ChangesAgo |-> 0]
NoQuery == [op |-> "none", pc |-> "idle", n |-> 0, fail |-> <<"none">>, err |-> "",
            cur |-> NoVersions, at |-> NoVersions, result |-> NoVersions,
            reads |-> {}, timeline |-> <<>>,
            input |-> <<>>, path |-> <<>>, spec |-> NoVersionSpec, calls |-> <<>>,
            secrets1 |-> <<>>, secrets2 |-> <<>>, diff |-> NoDiff]

\* The second mount, on which the path operations work: a secret x at the
\* top and the directories src and dst, each with the secrets x and y, in
\* the order a recursive list returns them.  A path is the sequence of its
\* components.
KvOrder == << <<"dst", "x">>, <<"dst", "y">>, <<"src", "x">>, <<"src", "y">>,
              <<"x">> >>
KvPaths == {KvOrder[i] : i \in 1..Len(KvOrder)}
KvDirs == {<<"src">>, <<"dst">>}
Root == <<>>

\* The clients that run path operations.
Clients == {"c1", "c2"}

\* The operation a client runs: its name and arguments, where it stands
\* (pc), its local variables, the error it returns (empty for nil), its
\* result, and the store as it was when the operation was called.
NoOp == [name |-> "none", pc |-> "idle", src |-> <<>>, dst |-> <<>>,
         value |-> "", srcData |-> NilMap, secretPaths |-> <<>>, i |-> 0,
         copiedPaths |-> <<>>, failedDeletes |-> 0, deletedCount |-> 0,
         err |-> "", count |-> 0, groups |-> {}, start |-> <<>>]

Init ==
    /\ live = [k \in Keys |-> NoSecret]
    /\ snapshot = NoSnapshot
    /\ opts = NoOptions
    /\ pc = "idle"
    /\ currentSet = {}
    /\ todo = {}
    /\ relPath = ""
    /\ exists = FALSE
    /\ result = NoResult
    /\ run = 0
    /\ prev = NoPrev
    /\ startLive = [k \in Keys |-> NoSecret]
    /\ failed = FALSE
    /\ writerOps = 0
    /\ changed = {}
    /\ raced = NoRaced
    /\ hist = NoHistory
    /\ clock = 0
    /\ query = NoQuery
    /\ tree = [p \in KvPaths |-> NoSecret]
    /\ op = [c \in Clients |-> NoOp]

\* One client at a time: other clients write only between restores.
Next ==
    \/ \E k \in Keys : \E d \in ClientData(k) : ExternalWrite(k, d)
    \/ \E k \in Keys : ExternalDelete(k)
    \/ \E s \in Snapshots : \E o \in Options : Restore(s, o)
    \/ RestoreStep
    \/ Rerun
    \/ Finish

Spec == Init /\ [][Next]_vars

\* ------------------------------------------------------ concurrent writer

\* The value CreateSnapshot records for a secret: the field "value" when it
\* is the only field of the data, else the data.
SecretValue(d) == IF HasOnlyValue(d) THEN d.m[1][2] ELSE d

\* CreateSnapshot: every secret under the path with its value and its
\* current version; an empty directory is refused.
CreateSnapshot ==
    /\ pc = "idle"
    /\ snapshot = NoSnapshot
    /\ ListSecretPaths(live) # {}
    /\ \A k \in Keys : live[k].version <= MaxVersion
    /\ snapshot' = [k \in Keys |->
                      IF live[k].version > 0
                      THEN [in |-> TRUE,
                            Value |-> SecretValue(ReadSecretRaw(live, k)),
                            Version |-> live[k].version]
                      ELSE NoEntry]
    /\ writerOps' = 0
    /\ changed' = {}
    /\ raced' = NoRaced
    /\ UNCHANGED <<live, opts, pc, currentSet, todo, relPath, exists, result, run,
                   prev, startLive, failed, histVars, opsVars>>

\* RestoreSnapshot is called with the snapshot captured before.
RestoreCaptured(o) ==
    /\ pc = "idle"
    /\ snapshot # NoSnapshot
    /\ StartRun(snapshot, o, 1)
    /\ prev' = NoPrev
    /\ UNCHANGED <<live, writerVars, histVars, opsVars>>

Restoring == pc \notin {"idle", "done", "error", "panic"}

\* Another client writes a secret after the capture, before or while the
\* restore runs.
WriterWrite(k, d) ==
    /\ snapshot # NoSnapshot
    /\ pc = "idle" \/ Restoring
    /\ writerOps < MaxWriterOps
    /\ live' = WriteSecret(live, k, d)
    /\ writerOps' = writerOps + 1
    /\ changed' = changed \cup {k}
    /\ raced' = IF Restoring THEN [raced EXCEPT ![k] = d] ELSE raced
    /\ UNCHANGED <<restoreVars, histVars, opsVars>>

\* Another client deletes a secret after the capture, before or while the
\* restore runs.
WriterDelete(k) ==
    /\ snapshot # NoSnapshot
    /\ pc = "idle" \/ Restoring
    /\ writerOps < MaxWriterOps
    /\ live[k].version > 0
    /\ live' = DeleteSecret(live, k)
    /\ writerOps' = writerOps + 1
    /\ raced' = IF Restoring THEN [raced EXCEPT ![k] = Nil] ELSE raced
    /\ UNCHANGED <<restoreVars, changed, histVars, opsVars>>

\* A snapshot is captured, other clients go on writing, and the snapshot is
\* restored while they do.
NextConc ==
    \/ \E k \in Keys : \E d \in ClientData(k) : ExternalWrite(k, d)
    \/ \E k \in Keys : ExternalDelete(k)
    \/ CreateSnapshot
    \/ \E k \in Keys : \E d \in ClientData(k) : WriterWrite(k, d)
    \/ \E k \in Keys : WriterDelete(k)
    \/ \E o \in Options : RestoreCaptured(o)
    \/ RestoreStep
    \/ Finish

SpecConc == Init /\ [][NextConc]_vars

\* ------------------------------------------------------- directory history

\* hist[k][v] is version v of secret k in the store's metadata: its
\* created_time and whether it has been deleted (deletion_time set) or
\* destroyed.  Version v of k holds data of its own, named by <<k, v>>.
Removed(h) ==
    Cardinality({kv \in HistKeys \X (1..MaxClock) :
        /\ kv[2] <= Len(h[kv[1]])
        /\ (h[kv[1]][kv[2]].Deleted \/ h[kv[1]][kv[2]].Destroyed)})

\* A client writes a secret of the directory: a new version, created now.
HistoryWrite(k) ==
    /\ query.pc = "idle"
    /\ clock < MaxClock
    /\ clock' = clock + 1
    /\ hist' = [hist EXCEPT ![k] = Append(@, [CreatedTime |-> clock + 1,
                                               Deleted |-> FALSE,
                                               Destroyed |-> FALSE])]
    /\ UNCHANGED <<live, restoreVars, writerVars, opsVars, query>>

\* A client of the store deletes one version of a secret.
VersionDelete(k, v) ==
    /\ query.pc = "idle"
    /\ v \in 1..Len(hist[k])
    /\ ~hist[k][v].Deleted /\ ~hist[k][v].Destroyed
    /\ Removed(hist) < MaxRemoved
    /\ hist' = [hist EXCEPT ![k][v].Deleted = TRUE]
    /\ UNCHANGED <<live, restoreVars, writerVars, opsVars, clock, query>>

\* A client of the store destroys one version of a secret.
VersionDestroy(k, v) ==
    /\ query.pc = "idle"
    /\ v \in 1..Len(hist[k])
    /\ ~hist[k][v].Deleted /\ ~hist[k][v].Destroyed
    /\ Removed(hist) < MaxRemoved
    /\ hist' = [hist EXCEPT ![k][v].Destroyed = TRUE]
    /\ UNCHANGED <<live, restoreVars, writerVars, opsVars, clock, query>>

\* The paths the store lists under the directory.
HistoryPaths(h) == {k \in HistKeys : Len(h[k]) > 0}

Retained(h, k, v) ==
    v \in 1..Len(h[k]) /\ ~h[k][v].Destroyed /\ ~h[k][v].Deleted

\* Mutant of GetVersionHistory: deleted and destroyed versions are listed
\* too.
RECURSIVE AllVersionsFrom(_, _, _)
AllVersionsFrom(h, k, v) ==
    IF v = 0 THEN <<>>
    ELSE <<[Version |-> v, CreatedTime |-> h[k][v].CreatedTime]>>
            \o AllVersionsFrom(h, k, v - 1)

GetVersionHistoryUnfiltered(h, k) == AllVersionsFrom(h, k, Len(h[k]))

\* GetVersionHistory: the versions of a secret that are neither destroyed
\* nor deleted, newest version first.
RECURSIVE VersionsFrom(_, _, _)
VersionsFrom(h, k, v) ==
    IF v = 0 THEN <<>>
    ELSE (IF Retained(h, k, v)
          THEN <<[Version |-> v, CreatedTime |-> h[k][v].CreatedTime]>>
          ELSE <<>>) \o VersionsFrom(h, k, v - 1)

GetVersionHistory(h, k) == VersionsFrom(h, k, Len(h[k]))

\* Mutant of ReadSecretVersion: a deleted or destroyed version still gives
\* its data.
ReadSecretVersionRemoved(h, k, v) == v

\* ReadSecretVersion: the data of one version, named by its version
\* number, or 0 (nil) for a version the store holds no data of.
ReadSecretVersion(h, k, v) == IF Retained(h, k, v) THEN v ELSE 0

\* Mutant of NewestVersion: the pointer starts at the oldest retained
\* version.
OldestVersion(history) == history[Len(history)].Version

\* The version GetStateAtChangesAgo starts a secret's pointer at:
\* history[0].Version, the newest retained version.
NewestVersion(history) == history[1].Version

\* The store calls of one query: at most one of them fails.
QueryFailures ==
    {<<"none">>, <<"list">>}
        \cup {<<"history", k>> : k \in HistKeys}
        \cup {<<"read", k>> : k \in HistKeys}

\* secretCurrentVersions: the pointer of every secret whose history was
\* read and is not empty (0 stands for a path that is not in the map).
SecretCurrentVersions(h, fail) ==
    [k \in HistKeys |->
        IF /\ k \in HistoryPaths(h)
           /\ fail # <<"history", k>>
           /\ GetVersionHistory(h, k) # <<>>
        THEN NewestVersion(GetVersionHistory(h, k))
        ELSE 0]

\* Mutant of ChangeEvents: the creation of a secret (version 1) is a change
\* event too.
ChangeEventsWithCreations(h, cur) ==
    {e \in [secretPath : HistKeys, version : 1..MaxClock, createdTime : 1..MaxClock] :
        /\ cur[e.secretPath] > 0
        /\ Retained(h, e.secretPath, e.version)
        /\ e.createdTime = h[e.secretPath][e.version].CreatedTime}

\* The change events: the retained versions above 1 of those secrets.
ChangeEvents(h, cur) ==
    {e \in [secretPath : HistKeys, version : 2..MaxClock, createdTime : 1..MaxClock] :
        /\ cur[e.secretPath] > 0
        /\ Retained(h, e.secretPath, e.version)
        /\ e.createdTime = h[e.secretPath][e.version].CreatedTime}

\* sort.Slice by createdTime, most recent first.
RECURSIVE SortByTime(_)
SortByTime(events) ==
    IF events = {} THEN <<>>
    ELSE LET first == CHOOSE e \in events :
                        \A o \in events : o.createdTime <= e.createdTime
         IN <<first>> \o SortByTime(events \ {first})

\* Mutant of TooDeep: the depth that equals the number of changes is
\* rejected too.
TooDeepAtBoundary(changesAgo, allChanges) == changesAgo >= Len(allChanges)

\* changesAgo > len(allChanges): more changes asked for than exist.
TooDeep(changesAgo, allChanges) == changesAgo > Len(allChanges)

\* Mutant of Undo: no event is undone.
UndoNothing(at, allChanges, i, changesAgo) == at

\* The walk over the first changesAgo events: an event moves the pointer
\* of its secret one version down when the pointer is at the event's
\* version.
RECURSIVE Undo(_, _, _, _)
Undo(at, allChanges, i, changesAgo) ==
    IF i > changesAgo \/ i > Len(allChanges) THEN at
    ELSE LET change == allChanges[i]
         IN Undo(IF at[change.secretPath] = change.version
                 THEN [at EXCEPT ![change.secretPath] = change.version - 1]
                 ELSE at,
                 allChanges, i + 1, changesAgo)

\* What the query returns once the versions at the point are known.
ReadAtPoint(h, changesAgo, fail, cur, at) ==
    LET secrets == [k \in HistKeys |->
                      IF at[k] < 1 \/ fail = <<"read", k>> THEN 0
                      ELSE ReadSecretVersion(h, k, at[k])]
    IN [op |-> "state", pc |-> "done", n |-> changesAgo, fail |-> fail,
        err |-> IF secrets = NoVersions THEN "no secrets at" ELSE "",
        cur |-> cur, at |-> at,
        result |-> secrets,
        reads |-> {k \in HistKeys : at[k] >= 1},
        timeline |-> <<>>,
        input |-> <<>>, path |-> <<>>, spec |-> NoVersionSpec, calls |-> <<>>]

QueryError(changesAgo, fail, err, cur) ==
    [op |-> "state", pc |-> "done", n |-> changesAgo, fail |-> fail, err |-> err,
     cur |-> cur, at |-> NoVersions, result |-> NoVersions, reads |-> {},
     timeline |-> <<>>,
     input |-> <<>>, path |-> <<>>, spec |-> NoVersionSpec, calls |-> <<>>]

\* What GetStateAtChangesAgo answers on store h.
StateAtChangesAgo(h, changesAgo, fail) ==
    IF fail = <<"list">> THEN QueryError(changesAgo, fail, "list", NoVersions)
    ELSE IF HistoryPaths(h) = {}
    THEN QueryError(changesAgo, fail, "no secrets", NoVersions)
    ELSE LET cur == SecretCurrentVersions(h, fail)
             allChanges == SortByTime(ChangeEvents(h, cur))
         IN IF Len(allChanges) = 0
            THEN QueryError(changesAgo, fail, "no changes", cur)
            ELSE IF TooDeep(changesAgo, allChanges)
            THEN QueryError(changesAgo, fail, "invalid depth", cur)
            ELSE ReadAtPoint(h, changesAgo, fail, cur,
                             Undo(cur, allChanges, 1, changesAgo))

\* GetStateAtChangesAgo(ctx, basePath, changesAgo).
GetStateAtChangesAgo(changesAgo, fail) ==
    /\ query.pc = "idle"
    /\ query' = StateAtChangesAgo(hist, changesAgo, fail)
    /\ UNCHANGED <<live, restoreVars, writerVars, opsVars, hist, clock>>

\* GetMetadata: the current version of a secret, the number of its latest
\* version whether or not that version still holds data.
CurrentVersion(h, k) == Len(h[k])

\* Mutant of PrevVersion: the current version is read.
PrevVersionCurrent(currentVersion) == currentVersion

\* prevVersion := metadata.CurrentVersion - 1
PrevVersion(currentVersion) == currentVersion - 1

\* The store calls of one GetPrevVersions: at most one of them fails.
PrevFailures ==
    {<<"none">>, <<"list">>}
        \cup {<<"metadata", k>> : k \in HistKeys}
        \cup {<<"read", k>> : k \in HistKeys}

\* The secrets GetPrevVersions skips: the metadata call failed, the secret
\* is at version 1, or the read of the previous version failed.
PrevSkipped(h, fail) ==
    {k \in HistoryPaths(h) :
        \/ fail = <<"metadata", k>>
        \/ CurrentVersion(h, k) <= 1
        \/ fail = <<"read", k>>}

\* What GetPrevVersions answers on store h.
PrevVersions(h, fail) ==
    IF fail = <<"list">>
    THEN [NoQuery EXCEPT !.op = "prev", !.pc = "done", !.fail = fail,
                         !.err = "list"]
    ELSE LET skipped == PrevSkipped(h, fail)
             asked == HistoryPaths(h) \ skipped
             secrets == [k \in HistKeys |->
                           IF k \in asked
                           THEN ReadSecretVersion(h, k,
                                    PrevVersion(CurrentVersion(h, k)))
                           ELSE 0]
         IN [NoQuery EXCEPT
                !.op = "prev", !.pc = "done", !.fail = fail,
                !.err = IF secrets # NoVersions THEN ""
                        ELSE IF skipped # {} THEN "no history"
                        ELSE "no secrets",
                !.result = secrets,
                !.reads = asked \cup {k \in skipped : fail = <<"read", k>>}]

\* GetPrevVersions(ctx, basePath).
GetPrevVersions(fail) ==
    /\ query.pc = "idle"
    /\ query' = PrevVersions(hist, fail)
    /\ UNCHANGED <<live, restoreVars, writerVars, opsVars, hist, clock>>

\* The store calls of one GetTimeline: at most one of them fails.
TimelineFailures ==
    {<<"none">>, <<"list">>} \cup {<<"history", k>> : k \in HistKeys}

TimelineEntry(k, v) ==
    [Time |-> v.CreatedTime, SecretPath |-> k, Version |-> v.Version,
     IsCreation |-> (v.Version = 1)]

\* Mutant of TimelineEntries: the creation of a secret is not an entry.
TimelineChangesOnly(h, fail) ==
    UNION {{TimelineEntry(k, GetVersionHistory(h, k)[i]) :
                i \in {j \in 1..Len(GetVersionHistory(h, k)) :
                         GetVersionHistory(h, k)[j].Version > 1}} :
           k \in {p \in HistoryPaths(h) : fail # <<"history", p>>}}

\* One entry for every version of the history of every secret whose
\* history was read.
TimelineEntries(h, fail) ==
    UNION {{TimelineEntry(k, GetVersionHistory(h, k)[i]) :
                i \in 1..Len(GetVersionHistory(h, k))} :
           k \in {p \in HistoryPaths(h) : fail # <<"history", p>>}}

\* sort.Slice by Time, newest first.
RECURSIVE SortTimeline(_)
SortTimeline(entries) ==
    IF entries = {} THEN <<>>
    ELSE LET first == CHOOSE e \in entries : \A o \in entries : o.Time <= e.Time
         IN <<first>> \o SortTimeline(entries \ {first})

\* GetTimeline(ctx, path).
GetTimeline(fail) ==
    /\ query.pc = "idle"
    /\ query' =
        LET answer == [NoQuery EXCEPT !.op = "timeline", !.pc = "done", !.fail = fail]
        IN IF fail = <<"list">> THEN [answer EXCEPT !.err = "list"]
           ELSE IF HistoryPaths(hist) = {} THEN [answer EXCEPT !.err = "no secrets"]
           ELSE IF TimelineEntries(hist, fail) = {}
           THEN [answer EXCEPT !.err = "no history"]
           ELSE [answer EXCEPT !.timeline = SortTimeline(TimelineEntries(hist, fail))]
    /\ UNCHANGED <<live, restoreVars, writerVars, opsVars, hist, clock>>

\* The caller has taken the answer.
QueryReturn ==
    /\ query.pc = "done"
    /\ query' = NoQuery
    /\ UNCHANGED <<live, restoreVars, writerVars, opsVars, hist, clock>>

\* Clients write the secrets of a directory and delete or destroy versions
\* of them; the directory's state N changes ago is asked for.
NextHist ==
    \/ \E k \in HistKeys : HistoryWrite(k)
    \/ \E k \in HistKeys : \E v \in 1..MaxClock : VersionDelete(k, v)
    \/ \E k \in HistKeys : \E v \in 1..MaxClock : VersionDestroy(k, v)
    \/ \E changesAgo \in 0..MaxClock : \E fail \in QueryFailures :
        GetStateAtChangesAgo(changesAgo, fail)
    \/ \E fail \in PrevFailures : GetPrevVersions(fail)
    \/ \E fail \in TimelineFailures : GetTimeline(fail)
    \/ QueryReturn

SpecHist == Init /\ [][NextHist]_vars

\* ---------------------------------------------------------- versioned paths

\* A path is a sequence of characters; the words prev and previous stand
\* for their letters, the letter p for any other text.
PathChars == {"p", "@", "-", "+", "0", "2", "3", "prev", "previous"}
Digits == {"0", "2", "3"}
DigitValue(c) == IF c = "0" THEN 0 ELSE IF c = "2" THEN 2 ELSE 3

\* The paths of up to MaxPathLen characters.
PathInputs == UNION {[1..n -> PathChars] : n \in 0..MaxPathLen}

\* Mutant of LastIndex: the index of the first "@".
FirstIndex(path) ==
    IF \E i \in 1..Len(path) : path[i] = "@"
    THEN CHOOSE i \in 1..Len(path) :
            path[i] = "@" /\ \A j \in 1..(i - 1) : path[j] # "@"
    ELSE 0

\* strings.LastIndex(path, "@"), counted from 1; 0 when there is none.
LastIndex(path) ==
    IF \E i \in 1..Len(path) : path[i] = "@"
    THEN CHOOSE i \in 1..Len(path) :
            path[i] = "@" /\ \A j \in (i + 1)..Len(path) : path[j] # "@"
    ELSE 0

\* The number a sequence of digits writes, digit by digit.
RECURSIVE Accumulate(_, _, _)
Accumulate(str, i, n) ==
    IF i > Len(str) THEN n
    ELSE Accumulate(str, i + 1, n * 10 + DigitValue(str[i]))

\* strconv.Atoi: an optional sign and then one digit or more.
Atoi(str) ==
    LET signed == Len(str) > 0 /\ str[1] \in {"+", "-"}
        digits == IF signed THEN Tail(str) ELSE str
    IN IF digits = <<>> \/ \E i \in 1..Len(digits) : digits[i] \notin Digits
       THEN [err |-> TRUE, n |-> 0]
       ELSE [err |-> FALSE,
             n |-> IF signed /\ str[1] = "-"
                   THEN 0 - Accumulate(digits, 1, 0)
                   ELSE Accumulate(digits, 1, 0)]

\* ParseVersionedPath(path): the base path and the version specifier.
ParseVersionedPath(path) ==
    LET idx == LastIndex(path)
        versionStr == SubSeq(path, idx + 1, Len(path))
        basePath == SubSeq(path, 1, idx - 1)
        version == Atoi(versionStr)
    IN IF idx # 0 /\ versionStr \in {<<"prev">>, <<"previous">>}
       THEN [path |-> basePath, spec |-> [NoVersionSpec EXCEPT !.IsPrev = TRUE]]
       ELSE IF idx # 0 /\ ~version.err /\ version.n < 0
       THEN [path |-> basePath,
             spec |-> [NoVersionSpec EXCEPT !.ChangesAgo = 0 - version.n,
                                            !.IsChangesAgo = TRUE]]
       ELSE IF idx # 0 /\ ~version.err /\ version.n > 0
       THEN [path |-> basePath, spec |-> [NoVersionSpec EXCEPT !.Version = version.n]]
       ELSE [path |-> path, spec |-> NoVersionSpec]

\* A path is parsed.
Parse(input) ==
    /\ query.pc = "idle"
    /\ query' = [NoQuery EXCEPT !.op = "parse", !.pc = "done", !.input = input,
                                !.path = ParseVersionedPath(input).path,
                                !.spec = ParseVersionedPath(input).spec]
    /\ UNCHANGED <<live, restoreVars, writerVars, opsVars, hist, clock>>

\* Paths are parsed.
NextParse ==
    \/ query.pc = "idle" /\ \E input \in PathInputs : Parse(input)
    \/ QueryReturn

SpecParse == Init /\ [][NextParse]_vars

\* The directory whose history is kept, and the secrets under it.
Directory == <<"dir">>
SecretPath(k) == <<"dir", "/", k>>

\* The paths vlt diff is given: the directory or one of its secrets, bare
\* or with a version suffix.
Suffixes == {<<>>, <<"@", "2">>, <<"@", "prev">>, <<"@", "-", "2">>, <<"@", "0">>}
VaultPaths ==
    {base \o suffix : base \in {Directory} \cup {SecretPath(k) : k \in HistKeys},
                      suffix \in Suffixes}

HasVersion(v) == v.Version > 0 \/ v.IsPrev \/ v.IsChangesAgo

\* Mutant of IsDirectory: every path is taken for a directory.
IsDirectoryAlways(h, basePath) == TRUE

\* IsDirectory: the list of the path returns keys.
IsDirectory(h, basePath) == basePath = Directory /\ HistoryPaths(h) # {}

\* The store calls of one getSecretsFromVault that may fail: here the
\* IsDirectory list (the calls of the functions it hands over to fail in
\* the actions of those functions).
ResolveFailures == {<<"none">>, <<"isdir">>}

\* client.Get: every secret under the path at its current version.
Get(h, basePath) ==
    LET secrets == [k \in HistKeys |->
                      IF basePath \in {Directory, SecretPath(k)}
                      THEN ReadSecretVersion(h, k, CurrentVersion(h, k))
                      ELSE 0]
    IN [NoQuery EXCEPT !.err = IF secrets = NoVersions THEN "no secrets" ELSE "",
                       !.result = secrets,
                       !.reads = {k \in HistKeys : secrets[k] # 0},
                       !.calls = <<"Get">>]

\* GetSecretAtVersion(ctx, path, version, isPrev).
GetSecretAtVersion(h, basePath, version, isPrev) ==
    LET known == {k \in HistoryPaths(h) : basePath = SecretPath(k)}
        wanted == [k \in HistKeys |->
                     IF k \notin known THEN 0
                     ELSE IF isPrev THEN CurrentVersion(h, k) - 1
                     ELSE version]
        secrets == [k \in HistKeys |->
                      IF k \in known THEN ReadSecretVersion(h, k, wanted[k]) ELSE 0]
        metadata == IF isPrev THEN <<"GetMetadata">> ELSE <<>>
    IN IF isPrev /\ known = {}
       THEN [NoQuery EXCEPT !.err = "not found", !.calls = metadata]
       ELSE IF isPrev /\ \E k \in known : CurrentVersion(h, k) <= 1
       THEN [NoQuery EXCEPT !.err = "no previous version", !.calls = metadata]
       ELSE [NoQuery EXCEPT
                !.err = IF secrets = NoVersions THEN "version not found" ELSE "",
                !.result = secrets,
                !.reads = known,
                !.calls = metadata \o <<"ReadSecretVersion">>]

\* The store calls behind an answer of GetStateAtChangesAgo or
\* GetPrevVersions: the list, a call for every listed path, the reads.
CallsOf(h, answer) ==
    <<"ListSecretPaths">>
        \o [i \in 1..Cardinality(HistoryPaths(h)) |->
                IF answer.op = "state" THEN "GetVersionHistory" ELSE "GetMetadata"]
        \o [i \in 1..Cardinality(answer.reads) |-> "ReadSecretVersion"]

\* getSecretsFromVault(ctx, client, path) of vlt diff.
Resolve(h, input, fail) ==
    LET basePath == ParseVersionedPath(input).path
        spec == ParseVersionedPath(input).spec
        isDir == fail # <<"isdir">> /\ IsDirectory(h, basePath)
        rejected == [NoQuery EXCEPT !.err = "invalid selector",
                                    !.calls = <<"IsDirectory">>]
        handed ==
            IF isDir /\ spec.IsChangesAgo
            THEN StateAtChangesAgo(h, spec.ChangesAgo, <<"none">>)
            ELSE IF isDir THEN PrevVersions(h, <<"none">>)
            ELSE GetSecretAtVersion(h, basePath, spec.Version, spec.IsPrev)
        answer ==
            IF ~HasVersion(spec) THEN Get(h, basePath)
            ELSE IF isDir /\ spec.Version > 0 THEN rejected
            ELSE IF ~isDir /\ spec.IsChangesAgo THEN rejected
            ELSE IF isDir
            THEN [handed EXCEPT !.calls = <<"IsDirectory">> \o CallsOf(h, handed)]
            ELSE [handed EXCEPT !.calls = <<"IsDirectory">> \o handed.calls]
    IN [answer EXCEPT !.op = "resolve", !.pc = "done", !.fail = fail,
                      !.input = input, !.path = basePath, !.spec = spec]

GetSecretsFromVault(input, fail) ==
    /\ query.pc = "idle"
    /\ query' = Resolve(hist, input, fail)
    /\ UNCHANGED <<live, restoreVars, writerVars, opsVars, hist, clock>>

\* Clients write the secrets of a directory and delete or destroy versions
\* of them; vlt diff resolves the paths it is given.
NextResolve ==
    \/ \E k \in HistKeys : HistoryWrite(k)
    \/ \E k \in HistKeys : \E v \in 1..MaxClock : VersionDelete(k, v)
    \/ \E k \in HistKeys : \E v \in 1..MaxClock : VersionDestroy(k, v)
    \/ \E input \in VaultPaths : \E fail \in ResolveFailures :
        GetSecretsFromVault(input, fail)
    \/ QueryReturn

SpecResolve == Init /\ [][NextResolve]_vars

\* ------------------------------------------------------- secret comparison

\* The keys of a flattened secret map, in the order Go's < gives strings;
\* the empty key is what FlattenAndExtractValues makes of a lone "value".
DiffKeyOrder == <<"", "a", "b">>
DiffKeys == {DiffKeyOrder[i] : i \in 1..Len(DiffKeyOrder)}
KeyRank(key) == CHOOSE i \in 1..Len(DiffKeyOrder) : DiffKeyOrder[i] = key

\* The values of a flattened secret map: strings, a number that prints as
\* one of the strings, and nil.
DiffValues == {S1, N1, S2, Nil}

\* map[string]any: a function from the keys the map holds.
FlatMaps == UNION {[D -> DiffValues] : D \in SUBSET DiffKeys}

\* The orders in which a range over a map may visit its keys.
RangeOrders ==
    {o \in [1..Len(DiffKeyOrder) -> DiffKeys] :
        \A i, j \in 1..Len(DiffKeyOrder) : i # j => o[i] # o[j]}

\* sha256 of the %v form, taken as free of collisions: the digest stands
\* for the text it was made of.
hashValueOfValue(value) == <<"sha256", value>>
hashValue(value) == <<"sha256", Sprintf(value)>>

\* sort.Slice(entries, by Key): insertion of each entry before the first
\* entry with a greater key.
RECURSIVE SortByKey(_)
SortUnsorted(entries) == entries
SortByKey(entries) ==
    IF entries = <<>> THEN <<>>
    ELSE LET rest == SortByKey(Tail(entries))
             e == Head(entries)
             lower == SelectSeq(rest, LAMBDA x : KeyRank(x.Key) < KeyRank(e.Key))
             upper == SelectSeq(rest, LAMBDA x : ~(KeyRank(x.Key) < KeyRank(e.Key)))
         IN lower \o <<e>> \o upper

\* The first loop of CompareSecrets, over the keys of secrets1 in the
\* order the range visits them, from position i on.
RECURSIVE FirstLoop(_, _, _, _, _)
FirstLoop(secrets1, secrets2, order, i, acc) ==
    IF i > Len(order) THEN acc
    ELSE LET key == order[i] IN
         IF key \notin DOMAIN secrets1
         THEN FirstLoop(secrets1, secrets2, order, i + 1, acc)
         ELSE LET val1 == secrets1[key]
                  val1Str == Sprintf(val1)
              IN IF key \in DOMAIN secrets2
                 THEN LET val2 == secrets2[key]
                          val2Str == Sprintf(val2)
                      IN IF hashValue(val1) # hashValue(val2)
                         THEN FirstLoop(secrets1, secrets2, order, i + 1,
                                [acc EXCEPT !.Changed = Append(@,
                                    [Key |-> key, FirstLen |-> Len(val1Str),
                                     SecondLen |-> Len(val2Str),
                                     FirstValue |-> val1Str,
                                     SecondValue |-> val2Str])])
                         ELSE FirstLoop(secrets1, secrets2, order, i + 1,
                                [acc EXCEPT !.Unchanged = @ + 1])
                 ELSE FirstLoop(secrets1, secrets2, order, i + 1,
                        [acc EXCEPT !.OnlyInFirst =
                            Append(@, [Key |-> key, Value |-> val1Str])])

\* The second loop, over the keys of secrets2.
RECURSIVE SecondLoop(_, _, _, _, _)
RECURSIVE SecondLoopAll(_, _, _, _, _)
SecondLoopAll(secrets1, secrets2, order, i, acc) ==
    IF i > Len(order) THEN acc
    ELSE LET key == order[i] IN
         IF key \in DOMAIN secrets2
         THEN SecondLoopAll(secrets1, secrets2, order, i + 1,
                [acc EXCEPT !.OnlyInSecond =
                    Append(@, [Key |-> key, Value |-> Sprintf(secrets2[key])])])
         ELSE SecondLoopAll(secrets1, secrets2, order, i + 1, acc)

SecondLoop(secrets1, secrets2, order, i, acc) ==
    IF i > Len(order) THEN acc
    ELSE LET key == order[i] IN
         IF key \in DOMAIN secrets2 /\ key \notin DOMAIN secrets1
         THEN SecondLoop(secrets1, secrets2, order, i + 1,
                [acc EXCEPT !.OnlyInSecond =
                    Append(@, [Key |-> key, Value |-> Sprintf(secrets2[key])])])
         ELSE SecondLoop(secrets1, secrets2, order, i + 1, acc)

\* CompareSecrets(secrets1, secrets2) when the two ranges visit the keys in
\* the orders order1 and order2.
CompareSecrets(secrets1, secrets2, order1, order2) ==
    LET looped == SecondLoop(secrets1, secrets2, order2, 1,
                    FirstLoop(secrets1, secrets2, order1, 1, NoDiff))
    IN [OnlyInFirst |-> SortByKey(looped.OnlyInFirst),
        OnlyInSecond |-> SortByKey(looped.OnlyInSecond),
        Changed |-> SortByKey(looped.Changed),
        Unchanged |-> looped.Unchanged]

\* Two maps are compared.
Compare(secrets1, secrets2, order1, order2) ==
    /\ query.pc = "idle"
    /\ query' = [NoQuery EXCEPT !.op = "compare", !.pc = "done",
                                !.secrets1 = secrets1, !.secrets2 = secrets2,
                                !.diff = CompareSecrets(secrets1, secrets2,
                                                        order1, order2)]
    /\ UNCHANGED <<live, restoreVars, writerVars, opsVars, hist, clock>>

\* Maps are compared.
NextCompare ==
    \/ query.pc = "idle"
       /\ \E secrets1, secrets2 \in FlatMaps : \E order1, order2 \in RangeOrders :
            Compare(secrets1, secrets2, order1, order2)
    \/ QueryReturn

SpecCompare == Init /\ [][NextCompare]_vars

\* --------------------------------------------------------- path operations

\* SecretExists: the metadata read finds the secret.
SecretExists(store, path) == path \in DOMAIN store /\ store[path].version > 0

\* readSecret at a path of the second mount.
ReadRaw(store, path) ==
    IF path \in DOMAIN store THEN ReadSecretRaw(store, path) ELSE NilMap

\* len(data) of a map[string]any
LenOfData(data) == IF data.t = "map" THEN Len(data.m) ELSE 0

\* The data clients write to the second mount.
KvData == {Wrap(S1), Wrap(S2)}
AddValues == {"1", "2"}

\* Another client writes or deletes a secret while no operation runs.
Idle == \A c \in Clients : op[c].pc = "idle"

Put(path, data) ==
    /\ Idle
    /\ tree[path].version < MaxSecretVersion
    /\ tree' = WriteSecret(tree, path, data)
    /\ UNCHANGED <<live, restoreVars, writerVars, histVars, op>>

Remove(path) ==
    /\ Idle
    /\ tree[path].version > 0
    /\ tree' = DeleteSecret(tree, path)
    /\ UNCHANGED <<live, restoreVars, writerVars, histVars, op>>

\* The operation has returned and the caller has taken its answer.
OpReturn(c) ==
    /\ op[c].pc = "done"
    /\ op' = [op EXCEPT ![c] = NoOp]
    /\ UNCHANGED <<live, restoreVars, writerVars, histVars, tree>>

Returns(c, err) == op' = [op EXCEPT ![c].pc = "done", ![c].err = err]

\* Add and Update are called: the next step is the SecretExists call.
AddCall(c, path, value) ==
    /\ op[c].pc = "idle"
    /\ op' = [op EXCEPT ![c] = [NoOp EXCEPT !.name = "Add", !.pc = "exists",
                                            !.dst = path, !.value = value,
                                            !.start = tree]]
    /\ UNCHANGED <<live, restoreVars, writerVars, histVars, tree>>

UpdateCall(c, path, value) ==
    /\ op[c].pc = "idle"
    /\ tree[path].version < MaxSecretVersion
    /\ op' = [op EXCEPT ![c] = [NoOp EXCEPT !.name = "Update", !.pc = "exists",
                                            !.dst = path, !.value = value,
                                            !.start = tree]]
    /\ UNCHANGED <<live, restoreVars, writerVars, histVars, tree>>

\* Add goes on when the secret does not exist, Update when it does.
AddRefusesMissing(name, found) == name = "Add" /\ ~found
AddRefuses(name, found) == name = "Add" /\ found
UpdateRefuses(name, found) == name = "Update" /\ ~found

\* exists, err := c.SecretExists(ctx, path) and the test that follows.
ExistsStep(c, ok) ==
    /\ op[c].pc = "exists" /\ op[c].name \in {"Add", "Update"}
    /\ IF ~ok THEN Returns(c, "failed to check secret")
       ELSE LET found == SecretExists(tree, op[c].dst) IN
            IF AddRefuses(op[c].name, found)
            THEN Returns(c, "secret already exists")
            ELSE IF UpdateRefuses(op[c].name, found)
            THEN Returns(c, "secret not found")
            ELSE op' = [op EXCEPT ![c].pc = "write"]
    /\ UNCHANGED <<live, restoreVars, writerVars, histVars, tree>>

\* return c.WriteSecret(ctx, path, data) with data = {"value": value}
WriteStep(c, ok) ==
    /\ op[c].pc = "write" /\ op[c].name \in {"Add", "Update"}
    /\ IF ok
       THEN /\ tree[op[c].dst].version < MaxSecretVersion
            /\ tree' = WriteSecret(tree, op[c].dst, Wrap(Str(op[c].value)))
            /\ Returns(c, "")
       ELSE UNCHANGED tree /\ Returns(c, "failed to write secret")
    /\ UNCHANGED <<live, restoreVars, writerVars, histVars>>

\* listSecretPathsRecursive: the secrets under basePath at any depth, as
\* paths relative to basePath.
IsUnder(path, basePath) ==
    Len(path) > Len(basePath) /\ SubSeq(path, 1, Len(basePath)) = basePath

ListSecretPathsRecursive(store, basePath) ==
    LET under == SelectSeq(KvOrder, LAMBDA path :
                    IsUnder(path, basePath) /\ SecretExists(store, path))
    IN [i \in 1..Len(under) |->
            SubSeq(under[i], Len(basePath) + 1, Len(under[i]))]

\* The store calls of an operation taken in one step are numbered in the
\* order they are issued; call number fail returns an error (0: none
\* does), n is the number of calls issued so far.

\* checkDestinationsNotExist, from relPaths[i] on.
RECURSIVE CheckDestinationsNotExist(_, _, _, _, _, _)
CheckNothing(store, dst, relPaths, i, n, fail) == [err |-> "", n |-> n]
CheckDestinationsNotExist(store, dst, relPaths, i, n, fail) ==
    IF i > Len(relPaths) THEN [err |-> "", n |-> n]
    ELSE IF fail = n + 1 THEN [err |-> "failed to check secret", n |-> n + 1]
    ELSE IF SecretExists(store, dst \o relPaths[i])
    THEN [err |-> "destination already exists", n |-> n + 1]
    ELSE CheckDestinationsNotExist(store, dst, relPaths, i + 1, n + 1, fail)

\* copySecrets, from relPaths[i] on.
RECURSIVE CopySecrets(_, _, _, _, _, _, _)
CopySecrets(store, src, dst, relPaths, i, n, fail) ==
    IF i > Len(relPaths) THEN [store |-> store, err |-> ""]
    ELSE IF fail = n + 1 THEN [store |-> store, err |-> "failed to read secret"]
    ELSE IF fail = n + 2 THEN [store |-> store, err |-> "failed to write"]
    ELSE CopySecrets(WriteSecret(store, dst \o relPaths[i],
                                 ReadRaw(store, src \o relPaths[i])),
                     src, dst, relPaths, i + 1, n + 2, fail)

\* Copy: readAndValidateSource, checkDestinationNotExists, WriteSecret.
CopySecret(store, src, dst, n, fail) ==
    LET srcData == ReadRaw(store, src)
        check == CheckDestinationsNotExist(store, dst, << <<>> >>, 1, n + 1, fail)
    IN IF fail = n + 1 THEN [store |-> store, err |-> "failed to read secret"]
       ELSE IF LenOfData(srcData) = 0
       THEN [store |-> store, err |-> "source secret does not exist"]
       ELSE IF check.err # "" THEN [store |-> store, err |-> check.err]
       ELSE IF fail = n + 3 THEN [store |-> store, err |-> "failed to write"]
       ELSE [store |-> WriteSecret(store, dst, srcData), err |-> ""]

\* CopyRecursive
CopyAll(store, src, dst, fail) ==
    LET secretPaths == ListSecretPathsRecursive(store, src)
        check == CheckDestinationsNotExist(store, dst, secretPaths, 1, 1, fail)
    IN IF fail = 1 THEN [store |-> store, err |-> "failed to list"]
       ELSE IF Len(secretPaths) = 0 THEN CopySecret(store, src, dst, 1, fail)
       ELSE IF check.err # "" THEN [store |-> store, err |-> check.err]
       ELSE CopySecrets(store, src, dst, secretPaths, 1, check.n, fail)

\* The arguments given to the operations on one secret and on a directory.
OpsPaths == {path \in KvPaths : Len(path) = 2}
SecretArgs == OpsPaths \X OpsPaths
RecursiveArgs == (KvDirs \X KvDirs) \cup ({<<"src", "x">>} \X OpsPaths)
CopyFailures == 0..3
CopyRecursiveFailures == 0..7

Copy(c, src, dst, fail) ==
    /\ op[c].pc = "idle"
    /\ LET answer == CopySecret(tree, src, dst, 0, fail) IN
        /\ tree' = answer.store
        /\ op' = [op EXCEPT ![c] = [NoOp EXCEPT !.name = "Copy", !.pc = "done",
                                                !.src = src, !.dst = dst,
                                                !.err = answer.err,
                                                !.start = tree]]
    /\ UNCHANGED <<live, restoreVars, writerVars, histVars>>

CopyRecursive(c, src, dst, fail) ==
    /\ op[c].pc = "idle"
    /\ LET answer == CopyAll(tree, src, dst, fail) IN
        /\ tree' = answer.store
        /\ op' = [op EXCEPT ![c] =
                    [NoOp EXCEPT !.name = "CopyRecursive", !.pc = "done",
                                 !.src = src, !.dst = dst, !.err = answer.err,
                                 !.secretPaths = ListSecretPathsRecursive(tree, src),
                                 !.count = IF answer.err # "" THEN 0
                                           ELSE IF ListSecretPathsRecursive(tree, src) = <<>>
                                           THEN 1
                                           ELSE Len(ListSecretPathsRecursive(tree, src)),
                                 !.start = tree]]
    /\ UNCHANGED <<live, restoreVars, writerVars, histVars>>

\* Move, one store call a step.
MoveCall(c, src, dst) ==
    /\ op[c].pc = "idle"
    /\ op' = [op EXCEPT ![c] = [NoOp EXCEPT !.name = "Move", !.pc = "read",
                                            !.src = src, !.dst = dst,
                                            !.start = tree]]
    /\ UNCHANGED <<live, restoreVars, writerVars, histVars, tree>>

\* srcData, err := c.readAndValidateSource(ctx, src)
MoveRead(c, ok) ==
    /\ op[c].pc = "read" /\ op[c].name = "Move"
    /\ IF ~ok THEN Returns(c, "failed to read secret")
       ELSE IF LenOfData(ReadRaw(tree, op[c].src)) = 0
       THEN Returns(c, "source secret does not exist")
       ELSE op' = [op EXCEPT ![c].pc = "check",
                             ![c].srcData = ReadRaw(tree, op[c].src)]
    /\ UNCHANGED <<live, restoreVars, writerVars, histVars, tree>>

\* c.checkDestinationNotExists(ctx, dst)
MoveCheck(c, ok) ==
    /\ op[c].pc = "check" /\ op[c].name = "Move"
    /\ IF ~ok THEN Returns(c, "failed to check secret")
       ELSE IF SecretExists(tree, op[c].dst)
       THEN Returns(c, "destination already exists")
       ELSE op' = [op EXCEPT ![c].pc = "write"]
    /\ UNCHANGED <<live, restoreVars, writerVars, histVars, tree>>

\* c.WriteSecret(ctx, dst, srcData)
MoveWrite(c, ok) ==
    /\ op[c].pc = "write" /\ op[c].name = "Move"
    /\ IF ok
       THEN /\ tree' = WriteSecret(tree, op[c].dst, op[c].srcData)
            /\ op' = [op EXCEPT ![c].pc = "delete"]
       ELSE UNCHANGED tree /\ Returns(c, "failed to write")
    /\ UNCHANGED <<live, restoreVars, writerVars, histVars>>

\* The secrets c.DeleteSecret(ctx, src) removes.
MoveDeleteTarget(o) == {o.src}

DeleteAll(store, paths) ==
    [path \in DOMAIN store |-> IF path \in paths THEN NoSecret ELSE store[path]]

\* c.DeleteSecret(ctx, src)
MoveDelete(c, ok) ==
    /\ op[c].pc = "delete" /\ op[c].name = "Move"
    /\ IF ok
       THEN /\ tree' = DeleteAll(tree, MoveDeleteTarget(op[c]))
            /\ Returns(c, "")
       ELSE UNCHANGED tree /\ op' = [op EXCEPT ![c].pc = "rollback"]
    /\ UNCHANGED <<live, restoreVars, writerVars, histVars>>

\* rollbackErr := c.DeleteSecret(ctx, dst)
MoveRollback(c, ok) ==
    /\ op[c].pc = "rollback" /\ op[c].name = "Move"
    /\ IF ok
       THEN /\ tree' = DeleteSecret(tree, op[c].dst)
            /\ Returns(c, "failed to delete source after copy")
       ELSE /\ UNCHANGED tree
            /\ Returns(c, "failed to delete source and rollback failed")
    /\ UNCHANGED <<live, restoreVars, writerVars, histVars>>

\* MoveRecursive up to its first write: the list of the source and the
\* checks of the destinations.
MoveRecursiveFailures == 0..3

MoveRecursiveCall(c, src, dst, fail) ==
    /\ op[c].pc = "idle"
    /\ LET secretPaths == ListSecretPathsRecursive(tree, src)
           check == CheckDestinationsNotExist(tree, dst, secretPaths, 1, 1, fail)
           err == IF fail = 1 THEN "failed to list"
                  ELSE IF Len(secretPaths) = 0 THEN "no secrets found"
                  ELSE check.err
       IN op' = [op EXCEPT ![c] =
                    [NoOp EXCEPT !.name = "MoveRecursive",
                                 !.pc = IF err = "" THEN "copy" ELSE "done",
                                 !.src = src, !.dst = dst, !.err = err,
                                 !.secretPaths = IF fail = 1 THEN <<>> ELSE secretPaths,
                                 !.i = 1, !.start = tree]]
    /\ UNCHANGED <<live, restoreVars, writerVars, histVars, tree>>

\* One round of the copy loop: ReadSecretRaw of the source and WriteSecret
\* of the destination.  A failed read returns at once; a failed write
\* starts the rollback of the copies made.
MoveRecursiveCopy(c, okRead, okWrite) ==
    /\ op[c].pc = "copy" /\ op[c].name = "MoveRecursive"
    /\ LET o == op[c]
           rel == o.secretPaths[o.i]
           dstPath == o.dst \o rel
       IN IF ~okRead
          THEN UNCHANGED tree /\ Returns(c, "failed to read secret")
          ELSE IF ~okWrite
          THEN /\ UNCHANGED tree
               /\ op' = [op EXCEPT ![c].err = "failed to write",
                                   ![c].i = 1,
                                   ![c].pc = IF o.copiedPaths = <<>> THEN "done"
                                             ELSE "rollback"]
          ELSE /\ tree' = WriteSecret(tree, dstPath, ReadRaw(tree, o.src \o rel))
               /\ op' = [op EXCEPT ![c].copiedPaths = Append(@, dstPath),
                                   ![c].i = IF o.i = Len(o.secretPaths) THEN 1
                                            ELSE o.i + 1,
                                   ![c].pc = IF o.i = Len(o.secretPaths)
                                             THEN "delete" ELSE "copy"]
    /\ UNCHANGED <<live, restoreVars, writerVars, histVars>>

\* One round of the rollback loop: DeleteSecret of a copy.
MoveRecursiveRollback(c, ok) ==
    /\ op[c].pc = "rollback" /\ op[c].name = "MoveRecursive"
    /\ LET o == op[c]
           last == o.i = Len(o.copiedPaths)
           failedDeletes == o.failedDeletes + (IF ok THEN 0 ELSE 1)
       IN /\ tree' = IF ok THEN DeleteSecret(tree, o.copiedPaths[o.i]) ELSE tree
          /\ op' = [op EXCEPT ![c].failedDeletes = failedDeletes,
                              ![c].i = o.i + 1,
                              ![c].pc = IF last THEN "done" ELSE "rollback",
                              ![c].err = IF last /\ failedDeletes > 0
                                         THEN "failed to write and rollback failed"
                                         ELSE "failed to write"]
    /\ UNCHANGED <<live, restoreVars, writerVars, histVars>>

\* The secret the delete loop removes for rel: mutation that deletes
\* the copy as well.
SourceAndCopy(o, rel) == {o.src \o rel, o.dst \o rel}
\* srcPath := src + "/" + relPath
SourcePath(o, rel) == {o.src \o rel}

\* One round of the delete loop: DeleteSecret of a source.
MoveRecursiveDelete(c, ok) ==
    /\ op[c].pc = "delete" /\ op[c].name = "MoveRecursive"
    /\ LET o == op[c]
           last == o.i = Len(o.secretPaths)
           failedDeletes == o.failedDeletes + (IF ok THEN 0 ELSE 1)
           deletedCount == o.deletedCount + (IF ok THEN 1 ELSE 0)
       IN /\ tree' = IF ok THEN DeleteAll(tree, SourcePath(o, o.secretPaths[o.i]))
                     ELSE tree
          /\ op' = [op EXCEPT ![c].failedDeletes = failedDeletes,
                              ![c].deletedCount = deletedCount,
                              ![c].i = o.i + 1,
                              ![c].pc = IF last THEN "done" ELSE "delete",
                              ![c].count = IF last THEN deletedCount ELSE 0,
                              ![c].err = IF last /\ failedDeletes > 0
                                         THEN "move partially completed" ELSE ""]
    /\ UNCHANGED <<live, restoreVars, writerVars, histVars>>

\* ListDirectories: the names of the directories right under currentPath,
\* and whether a secret lies right under it.
DirNames == <<"dst", "src">>
ListDirectories(store, currentPath) ==
    [dirs |-> SelectSeq(DirNames, LAMBDA d :
                \E path \in KvPaths :
                    IsUnder(path, currentPath \o <<d>>) /\ SecretExists(store, path)),
     hasSecrets |-> \E path \in KvPaths :
                        /\ Len(path) = Len(currentPath) + 1
                        /\ IsUnder(path, currentPath)
                        /\ SecretExists(store, path)]

\* What the range over the data of a secret appends to valueMap: for every
\* key the hash of its value and the full path secretPath.key.
ValuesOf(secretPath, data) ==
    [i \in 1..LenOfData(data) |->
        [hash |-> hashValue(data.m[i][2]), fullPath |-> <<secretPath, data.m[i][1]>>]]

\* The loop of collectValues over the paths the recursive list returned.
RECURSIVE ValuesOfListed(_, _, _, _)
ValuesOfListed(store, currentPath, paths, i) ==
    IF i > Len(paths) THEN <<>>
    ELSE ValuesOf(currentPath \o paths[i], ReadRaw(store, currentPath \o paths[i]))
         \o ValuesOfListed(store, currentPath, paths, i + 1)

\* collectValues: the secret at currentPath itself, the secrets the
\* recursive list finds under it when a secret lies right under it, then
\* its subdirectories.  What it appends to valueMap is kept as one list.
RECURSIVE collectValues(_, _, _)
RECURSIVE CollectDirectories(_, _, _, _, _)
CollectDirectories(store, basePath, prefix, dirs, i) ==
    IF i > Len(dirs) THEN <<>>
    ELSE collectValues(store, basePath, prefix \o <<dirs[i]>>)
         \o CollectDirectories(store, basePath, prefix, dirs, i + 1)

collectValues(store, basePath, prefix) ==
    LET currentPath == basePath \o prefix
        listing == ListDirectories(store, currentPath)
    IN ValuesOf(currentPath, ReadRaw(store, currentPath))
       \o (IF listing.hasSecrets
           THEN ValuesOfListed(store, currentPath,
                               ListSecretPathsRecursive(store, currentPath), 1)
           ELSE <<>>)
       \o CollectDirectories(store, basePath, prefix, listing.dirs, 1)

\* The groups of valueMap with more than one path.
DuplicateGroups(valueMap) ==
    LET PathsOf(hash) ==
            LET hits == SelectSeq(valueMap, LAMBDA e : e.hash = hash)
            IN [i \in 1..Len(hits) |-> hits[i].fullPath]
    IN {PathsOf(valueMap[i].hash) : i \in 1..Len(valueMap)}
        \ {paths \in {PathsOf(valueMap[i].hash) : i \in 1..Len(valueMap)} :
                Len(paths) <= 1}

\* FindDuplicates; the first store calls of collectValues are the read of
\* the path itself (call 1) and the list of its directories (call 2).
FindDuplicatesFailures == 0..2
FindDuplicatesPaths == {Root, <<"src">>, <<"x">>}

FindDuplicates(c, path, fail) ==
    /\ op[c].pc = "idle"
    /\ op' = [op EXCEPT ![c] =
                [NoOp EXCEPT !.name = "FindDuplicates", !.pc = "done",
                             !.src = path, !.start = tree,
                             !.err = IF fail = 1 THEN "failed to read secret"
                                     ELSE IF fail = 2 THEN "failed to list"
                                     ELSE "",
                             !.groups = IF fail # 0 THEN {}
                                        ELSE DuplicateGroups(
                                                collectValues(tree, path, <<>>))]]
    /\ UNCHANGED <<live, restoreVars, writerVars, histVars, tree>>

\* The data of the secrets FindDuplicates reads: one value, or two keys
\* with two values.
DupData == {Wrap(S1), Wrap(S2), MapOf(<< <<"p", S1>>, <<"u", S2>> >>)}

\* One client at a time runs Add, Update, Copy, CopyRecursive, Move and
\* MoveRecursive; other clients write between two operations.
NextOps ==
    \/ \E path \in OpsPaths : \E data \in KvData : Put(path, data)
    \/ \E path \in OpsPaths : Remove(path)
    \/ \E path \in OpsPaths : \E value \in AddValues : AddCall("c1", path, value)
    \/ \E path \in OpsPaths : \E value \in AddValues : UpdateCall("c1", path, value)
    \/ \E ok \in BOOLEAN : ExistsStep("c1", ok)
    \/ \E ok \in BOOLEAN : WriteStep("c1", ok)
    \/ \E args \in SecretArgs : \E fail \in CopyFailures :
            Copy("c1", args[1], args[2], fail)
    \/ \E args \in RecursiveArgs : \E fail \in CopyRecursiveFailures :
            CopyRecursive("c1", args[1], args[2], fail)
    \/ \E args \in SecretArgs : MoveCall("c1", args[1], args[2])
    \/ \E ok \in BOOLEAN : MoveRead("c1", ok)
    \/ \E ok \in BOOLEAN : MoveCheck("c1", ok)
    \/ \E ok \in BOOLEAN : MoveWrite("c1", ok)
    \/ \E ok \in BOOLEAN : MoveDelete("c1", ok)
    \/ \E ok \in BOOLEAN : MoveRollback("c1", ok)
    \/ \E args \in KvDirs \X KvDirs : \E fail \in MoveRecursiveFailures :
            MoveRecursiveCall("c1", args[1], args[2], fail)
    \/ \E okRead, okWrite \in BOOLEAN : MoveRecursiveCopy("c1", okRead, okWrite)
    \/ \E ok \in BOOLEAN : MoveRecursiveRollback("c1", ok)
    \/ \E ok \in BOOLEAN : MoveRecursiveDelete("c1", ok)
    \/ OpReturn("c1")

SpecOps == Init /\ [][NextOps]_vars

\* Two clients run Add on the secret x at the same time, their store calls
\* interleaved.
NextAdd ==
    \/ \E data \in KvData : Put(<<"x">>, data)
    \/ Remove(<<"x">>)
    \/ \E c \in Clients : \E value \in AddValues : AddCall(c, <<"x">>, value)
    \/ \E c \in Clients : \E ok \in BOOLEAN : ExistsStep(c, ok)
    \/ \E c \in Clients : \E ok \in BOOLEAN : WriteStep(c, ok)
    \/ \E c \in Clients : OpReturn(c)

SpecAdd == Init /\ [][NextAdd]_vars

\* Secrets are written and deleted, and duplicates are looked for.
NextDup ==
    \/ \E path \in KvPaths : \E data \in DupData : Put(path, data)
    \/ \E path \in KvPaths : Remove(path)
    \/ \E path \in FindDuplicatesPaths : \E fail \in FindDuplicatesFailures :
            FindDuplicates("c1", path, fail)
    \/ OpReturn("c1")

SpecDup == Init /\ [][NextDup]_vars

\* ----------------------------------------------------- claims: restore

\* The printed form RestoreSnapshot compares values by.
Printed(v) == Sprintf(IF HasOnlyValue(v) THEN v.m[1][2] ELSE v)

FullRestore(o) == o.DeleteExtra /\ ~o.Verify /\ ~o.DryRun

\* The live directory holds the snapshot's paths with the snapshot's values.
LiveMatchesSnapshot ==
    /\ LiveKeys(live) = SnapshotKeys(snapshot)
    /\ \A k \in SnapshotKeys(snapshot) :
        SecretValue(live[k].data) = snapshot[k].Value

\* C1: RestoreSnapshot is idempotent.  After a first run with
\* DeleteExtra=true and DryRun=false in which every store call succeeded, a
\* second run with the same snapshot and options and nothing written in
\* between classifies no path as Added, Updated or Deleted, and issues no
\* write and no delete: the store stays as the second run found it.
C1_SecondRunEmpty ==
    (/\ run = 2
     /\ prev.pc = "done" /\ ~prev.failed
     /\ prev.opts.DeleteExtra /\ ~prev.opts.DryRun
     /\ opts = prev.opts)
    => /\ result.Added = {} /\ result.Updated = {} /\ result.Deleted = {}
       /\ pc # "write"
       /\ live = startLive

\* The second of two such runs has returned, after a first run that changed
\* the store, and found paths to leave unchanged.
C1_Witness ==
    /\ run = 2 /\ pc = "done"
    /\ prev.pc = "done" /\ ~prev.failed /\ prev.applied
    /\ prev.opts.DeleteExtra /\ ~prev.opts.DryRun /\ opts = prev.opts
    /\ prev.result.Updated # {} /\ prev.result.Deleted # {}
    /\ result.Unchanged # {}

\* C2: with Verify=true, a path of the snapshot that exists live when the
\* restore starts and that another client has written since the snapshot
\* was captured is reported in Skipped and keeps its live value (here for
\* runs in which every store call succeeded and no client acted while the
\* restore ran).
C2_ChangedPathSkipped ==
    (/\ pc = "done" /\ opts.Verify /\ ~failed
     /\ raced = NoRaced)
    => \A k \in changed \cap SnapshotKeys(snapshot) :
        startLive[k].version > 0
        => (k \in result.Skipped /\ live[k] = startLive[k])

\* C3: a restore with Verify=true loses no update of a concurrent writer:
\* a path of the snapshot that the writer wrote while the restore ran
\* still holds the writer's value when the restore has returned.
C3_WriterValueKept ==
    (pc = "done" /\ opts.Verify /\ ~failed)
    => \A k \in SnapshotKeys(snapshot) :
        raced[k].t = "map" => live[k].data = raced[k]

\* C4: after a RestoreSnapshot with DeleteExtra=true, Verify=false and
\* DryRun=false returned without error, the live paths are the snapshot's
\* paths and every live value equals the snapshot value of its path.
C4_LiveEqualsSnapshot ==
    (pc = "done" /\ FullRestore(opts)) => LiveMatchesSnapshot

\* C5: with Verify=false and every store call answered, a snapshot path is
\* Added if it was absent live, Unchanged if it was present with a value
\* that prints the same, Updated if it was present with a value that
\* prints differently; with DeleteExtra=true, Deleted is the set of live
\* paths that are not in the snapshot.  Snapshot {a:1, b:2} on live
\* {a:1, c:3} gives added [b], updated [], deleted [c], unchanged [a].
C5_Scenario ==
    /\ SnapshotKeys(snapshot) = {"a", "b"}
    /\ snapshot["a"].Value = S1 /\ snapshot["b"].Value = S2
    /\ LiveKeys(startLive) = {"a", "c"}
    /\ startLive["a"].data = Wrap(S1) /\ startLive["c"].data = Wrap(S3)
    /\ opts.DeleteExtra

C5_Classification ==
    (pc = "done" /\ ~opts.Verify /\ ~failed)
    => /\ result.Added = {k \in SnapshotKeys(snapshot) : startLive[k].version = 0}
       /\ result.Unchanged =
            {k \in SnapshotKeys(snapshot) :
                /\ startLive[k].version > 0
                /\ Printed(startLive[k].data) = Printed(snapshot[k].Value)}
       /\ result.Updated =
            {k \in SnapshotKeys(snapshot) :
                /\ startLive[k].version > 0
                /\ Printed(startLive[k].data) # Printed(snapshot[k].Value)}
       /\ result.Skipped = {}
       /\ result.Deleted =
            IF opts.DeleteExtra
            THEN LiveKeys(startLive) \ SnapshotKeys(snapshot) ELSE {}
       /\ C5_Scenario =>
            result = [Added |-> {"b"}, Updated |-> {}, Deleted |-> {"c"},
                      Unchanged |-> {"a"}, Skipped |-> {}]

\* The scenario of C5 has been restored.
C5_Witness == pc = "done" /\ ~opts.Verify /\ ~failed /\ C5_Scenario

\* C6: with DryRun=true RestoreSnapshot issues no write and no delete, so
\* the store stays as it was, and it returns the sets that the run with
\* DryRun=false, on the same store and with the same other options, returns.
C6_DryRunIsPreview ==
    /\ (pc # "idle" /\ opts.DryRun) => (live = startLive /\ pc # "write")
    /\ (/\ run = 2 /\ pc = "done"
        /\ prev.pc = "done" /\ ~prev.failed /\ prev.opts.DryRun
        /\ opts = [prev.opts EXCEPT !.DryRun = FALSE])
       => result = prev.result

\* A preview and then the real run have returned, and the real run added,
\* updated and deleted secrets.
C6_Witness ==
    /\ run = 2 /\ pc = "done"
    /\ prev.pc = "done" /\ ~prev.failed /\ prev.opts.DryRun
    /\ result.Added # {} /\ result.Updated # {} /\ result.Deleted # {}
    /\ live # startLive

\* C7: with DeleteExtra=false RestoreSnapshot neither deletes nor modifies
\* a live path that is not in the snapshot, and such a path is in none of
\* the result lists.
C7_ExtrasUntouched ==
    (pc # "idle" /\ ~opts.DeleteExtra)
    => \A k \in Keys \ SnapshotKeys(snapshot) :
        /\ live[k] = startLive[k]
        /\ k \notin (result.Added \cup result.Updated \cup result.Deleted
                     \cup result.Unchanged \cup result.Skipped)

\* A restore with DeleteExtra=false has returned, having changed the store
\* and left a live path that is not in the snapshot.
C7_Witness ==
    /\ pc = "done" /\ ~opts.DeleteExtra /\ ~opts.DryRun
    /\ live # startLive
    /\ LiveKeys(live) \ SnapshotKeys(snapshot) # {}

\* C8: if a run with DeleteExtra=true, Verify=false and DryRun=false ended
\* on a failed write or delete after it had changed the store, the same
\* restore run again, with no failing call and no other writer, ends with
\* the live directory equal to the snapshot.
C8_RerunConverges ==
    (/\ run = 2 /\ pc = "done"
     /\ prev.pc = "error" /\ prev.applied
     /\ FullRestore(prev.opts) /\ opts = prev.opts)
    => LiveMatchesSnapshot

\* ----------------------------------------------------- claims: history

\* The number of change events of secret k among the n most recent change
\* events of the directory.
EventsOf(k, n) ==
    LET allChanges == SortByTime(ChangeEvents(hist, query.cur))
    IN Cardinality({i \in 1..n : i <= Len(allChanges) /\ allChanges[i].secretPath = k})

RECURSIVE SumOver(_, _)
SumOver(f, keys) ==
    IF keys = {} THEN 0
    ELSE LET k == CHOOSE x \in keys : TRUE
         IN f[k] + SumOver(f, keys \ {k})

Answered == query.op = "state" /\ query.pc = "done" /\ query.fail = <<"none">>
Walked == Answered /\ query.err \in {"", "no secrets at"}

\* C9: GetStateAtChangesAgo(dir, N) undoes exactly the N most recent change
\* events, one version decrement per event: the pointer of every secret
\* ends at the version it started at minus the number of that secret's
\* events among the N most recent, and the decrements sum to N.
C9_UndoesExactlyN ==
    Walked
    => /\ \A k \in HistKeys : query.at[k] = query.cur[k] - EventsOf(k, query.n)
       /\ SumOver([k \in HistKeys |-> query.cur[k] - query.at[k]], HistKeys)
            = query.n

\* The live current state of the directory: every secret at its current
\* version, where that version holds data.
LiveState == [k \in HistKeys |-> ReadSecretVersion(hist, k, Len(hist[k]))]

\* C10 as stated: GetStateAtChangesAgo(dir, 0) returns the live current
\* state of every directory that holds a secret.
C10_ZeroIsLive ==
    (Answered /\ query.n = 0 /\ HistoryPaths(hist) # {})
    => (query.err = "" /\ query.result = LiveState)

\* C10: GetStateAtChangesAgo(dir, 0) fails with the no-changes error when
\* no secret of the directory has a retained version above 1; otherwise it
\* returns every secret that has a retained version at its newest retained
\* version, which is the live current state when the current version of
\* every secret that has a retained version is retained.
C10_ZeroIsNewestRetained ==
    (Answered /\ query.n = 0 /\ HistoryPaths(hist) # {})
    => IF \A k \in HistKeys : \A v \in 2..MaxClock : ~Retained(hist, k, v)
       THEN query.err = "no changes"
       ELSE /\ query.err = ""
            /\ \A k \in HistKeys :
                query.result[k] =
                    IF GetVersionHistory(hist, k) = <<>> THEN 0
                    ELSE GetVersionHistory(hist, k)[1].Version
            /\ (\A k \in HistKeys :
                    GetVersionHistory(hist, k) # <<>>
                    => Retained(hist, k, Len(hist[k])))
               => query.result = LiveState

\* The state 0 changes ago of a directory of two secrets, one of them
\* changed twice, has been returned.
C10_Witness ==
    /\ Answered /\ query.n = 0 /\ query.err = ""
    /\ HistoryPaths(hist) = HistKeys
    /\ \E k \in HistKeys : Len(hist[k]) >= 3
    /\ query.result = LiveState

\* The number of recorded changes of the directory: its retained versions
\* above 1.
TotalChanges == Cardinality(ChangeEvents(hist, query.cur))

\* Secret k exists and none of its versions is deleted or destroyed.
Intact(k) == Len(hist[k]) > 0 /\ \A v \in 1..Len(hist[k]) : Retained(hist, k, v)

\* The directory immediately after its very first write: the secret
\* written first, at version 1, and no other secret.
FirstWriteState ==
    [k \in HistKeys |->
        IF Len(hist[k]) > 0 /\ hist[k][1].CreatedTime = 1 THEN 1 ELSE 0]

C13_Scenario ==
    /\ \A k \in HistKeys : Len(hist[k]) = 2
    /\ Removed(hist) = 0

\* The secret of the scenario that was updated last.
LastUpdated ==
    CHOOSE k \in HistKeys :
        \A o \in HistKeys : hist[o][2].CreatedTime <= hist[k][2].CreatedTime

\* C13 as stated: the directory of the scenario has 4 recorded changes:
\* ChangesAgo(1) undoes the most recent event only, and ChangesAgo(4) is
\* accepted and returns both secrets at version 1.
C13_FourChanges ==
    (C13_Scenario /\ Answered)
    => /\ query.n = 1 =>
            /\ query.err = ""
            /\ query.result = [k \in HistKeys |-> IF k = LastUpdated THEN 1 ELSE 2]
       /\ query.n = 4 =>
            /\ query.err = ""
            /\ query.result = [k \in HistKeys |-> 1]

\* C13: the directory of the scenario has 2 recorded changes, the two
\* updates: ChangesAgo(1) undoes the most recent update only, ChangesAgo(2)
\* returns both secrets at version 1, and every greater depth, 4 included,
\* is rejected with the invalid-depth error.
C13_TwoChanges ==
    (C13_Scenario /\ Answered)
    => /\ TotalChanges = 2
       /\ query.n = 1 =>
            /\ query.err = ""
            /\ query.result = [k \in HistKeys |-> IF k = LastUpdated THEN 1 ELSE 2]
       /\ query.n = 2 =>
            /\ query.err = ""
            /\ query.result = [k \in HistKeys |-> 1]
       /\ query.n > 2 => query.err = "invalid depth"

\* ChangesAgo(4) has been asked of the directory of the scenario.
C13_Witness ==
    C13_Scenario /\ Answered /\ query.n = 4 /\ query.err = "invalid depth"

\* C14: for a directory with at least one recorded change (a retained
\* version above 1) and with every store call answered,
\* GetStateAtChangesAgo(dir, N) fails with the invalid-depth error exactly
\* when N is greater than the number of recorded changes, and then no
\* version of any secret is read.
C14_DepthBoundary ==
    (Answered /\ TotalChanges >= 1)
    => /\ query.err = "invalid depth" <=> query.n > TotalChanges
       /\ query.err = "invalid depth" =>
            (query.reads = {} /\ query.result = NoVersions)

\* One change more than the directory has recorded has been asked for, in
\* a directory where both secrets have changed.
C14_Witness ==
    /\ Answered /\ query.n = TotalChanges + 1
    /\ \A k \in HistKeys : Len(hist[k]) >= 2
    /\ query.err = "invalid depth"

PrevAnswered == query.op = "prev" /\ query.pc = "done" /\ query.fail = <<"none">>

\* C15 as stated: for a directory that holds a secret, GetPrevVersions
\* returns the data of version current-1 for exactly the secrets whose
\* current version is above 1, and fails with the no-history error when no
\* secret has a current version above 1.
C15_PrevOfEveryChanged ==
    (PrevAnswered /\ HistoryPaths(hist) # {})
    => IF \E k \in HistKeys : CurrentVersion(hist, k) > 1
       THEN /\ query.err = ""
            /\ \A k \in HistKeys :
                query.result[k] = IF CurrentVersion(hist, k) > 1
                                  THEN CurrentVersion(hist, k) - 1 ELSE 0
       ELSE query.err = "no history"

\* Secret k has a previous version that still holds data.
HasPrev(k) ==
    CurrentVersion(hist, k) > 1 /\ Retained(hist, k, CurrentVersion(hist, k) - 1)

\* C15: GetPrevVersions returns the data of version current-1 for exactly
\* the secrets whose current version is above 1 and whose version
\* current-1 is neither deleted nor destroyed; secrets at version 1
\* contribute nothing; when no secret contributes it fails, with the
\* no-history error if some secret is at version 1 and with the not-found
\* error otherwise.
C15_PrevOfEveryRetained ==
    (PrevAnswered /\ HistoryPaths(hist) # {})
    => /\ \A k \in HistKeys :
            query.result[k] = IF HasPrev(k) THEN CurrentVersion(hist, k) - 1 ELSE 0
       /\ query.err =
            IF \E k \in HistKeys : HasPrev(k) THEN ""
            ELSE IF \E k \in HistoryPaths(hist) : CurrentVersion(hist, k) = 1
            THEN "no history"
            ELSE "no secrets"

\* The previous versions of a directory have been returned in which one
\* secret was changed twice and the other is at version 1.
C15_Witness ==
    /\ PrevAnswered /\ query.err = ""
    /\ \E k \in HistKeys : CurrentVersion(hist, k) >= 3 /\ query.result[k] >= 2
    /\ \E k \in HistKeys : CurrentVersion(hist, k) = 1 /\ query.result[k] = 0

TimelineAnswered ==
    query.op = "timeline" /\ query.pc = "done" /\ query.fail = <<"none">>

\* The retained versions of the directory.
RetainedVersions ==
    {kv \in HistKeys \X (1..MaxClock) : Retained(hist, kv[1], kv[2])}

\* C16: with every store call answered, GetTimeline returns one entry for
\* every retained version of every secret of the directory and no other
\* entry, each with the created time of its version and with IsCreation
\* true if and only if the version is 1, and no entry has a later time
\* than an entry before it.
C16_TimelineOfRetained ==
    (TimelineAnswered /\ query.err = "")
    => /\ Len(query.timeline) = Cardinality(RetainedVersions)
       /\ {<<query.timeline[i].SecretPath, query.timeline[i].Version>> :
              i \in 1..Len(query.timeline)} = RetainedVersions
       /\ \A i \in 1..Len(query.timeline) :
            /\ query.timeline[i].IsCreation <=> query.timeline[i].Version = 1
            /\ query.timeline[i].Time =
                 hist[query.timeline[i].SecretPath][query.timeline[i].Version].CreatedTime
            /\ \A j \in 1..Len(query.timeline) :
                 i < j => query.timeline[i].Time >= query.timeline[j].Time

\* The timeline of a directory of two secrets with interleaved writes and
\* a deleted or destroyed version has been returned.
C16_Witness ==
    /\ TimelineAnswered /\ query.err = ""
    /\ Len(query.timeline) >= 4
    /\ Removed(hist) = 1
    /\ \E i \in 1..3 :
        /\ query.timeline[i].SecretPath = "a"
        /\ query.timeline[i + 1].SecretPath = "b"

\* C17 as stated: GetTimeline fails with the not-found error if the
\* directory has no secrets and with the no-history error if every secret
\* of the directory has exactly one version.
C17_NoHistoryAtVersionOne ==
    TimelineAnswered
    => /\ HistoryPaths(hist) = {} => query.err = "no secrets"
       /\ (HistoryPaths(hist) # {}
           /\ \A k \in HistoryPaths(hist) : Len(hist[k]) = 1)
          => query.err = "no history"

\* C17: GetTimeline fails with the not-found error if the directory has no
\* secrets and with the no-history error if the directory has secrets but
\* none of them has a retained version; a directory whose secrets all
\* have exactly one, retained, version gets the timeline of their
\* creations.
C17_NoHistoryWithoutVersions ==
    TimelineAnswered
    => /\ query.err =
            IF HistoryPaths(hist) = {} THEN "no secrets"
            ELSE IF RetainedVersions = {} THEN "no history"
            ELSE ""
       /\ (/\ HistoryPaths(hist) # {}
           /\ \A k \in HistoryPaths(hist) : Len(hist[k]) = 1 /\ Retained(hist, k, 1))
          => /\ Len(query.timeline) = Cardinality(HistoryPaths(hist))
             /\ \A i \in 1..Len(query.timeline) : query.timeline[i].IsCreation

\* The timeline of a directory whose two secrets have one version each has
\* been asked for.
C17_Witness ==
    /\ TimelineAnswered
    /\ \A k \in HistKeys : Len(hist[k]) = 1 /\ Retained(hist, k, 1)
    /\ Len(query.timeline) = 2

\* ------------------------------------------------------ claims: versioned paths

Parsed == query.op = "parse" /\ query.pc = "done"

\* A sequence of one digit or more.
IsNumeral(str) == str # <<>> /\ \A i \in 1..Len(str) : str[i] \in Digits

RECURSIVE NumeralValue(_)
NumeralValue(str) ==
    IF str = <<>> THEN 0
    ELSE 10 * NumeralValue(SubSeq(str, 1, Len(str) - 1)) + DigitValue(str[Len(str)])

\* The input is prefix @ suffix and the suffix holds no "@".
SplitsAt(input, i) ==
    /\ i \in 1..Len(input) /\ input[i] = "@"
    /\ \A j \in (i + 1)..Len(input) : input[j] # "@"

Exact(n) == [NoVersionSpec EXCEPT !.Version = n]
Previous == [NoVersionSpec EXCEPT !.IsPrev = TRUE]
ChangesAgo(n) == [NoVersionSpec EXCEPT !.IsChangesAgo = TRUE, !.ChangesAgo = n]

\* What the suffix after the last "@" selects; NoVersionSpec for a suffix
\* that is no selector.
Selector(suffix) ==
    IF suffix \in {<<"prev">>, <<"previous">>} THEN Previous
    ELSE IF IsNumeral(suffix) /\ NumeralValue(suffix) > 0
    THEN Exact(NumeralValue(suffix))
    ELSE IF Len(suffix) > 1 /\ suffix[1] = "+" /\ IsNumeral(Tail(suffix))
            /\ NumeralValue(Tail(suffix)) > 0
    THEN Exact(NumeralValue(Tail(suffix)))
    ELSE IF Len(suffix) > 1 /\ suffix[1] = "-" /\ IsNumeral(Tail(suffix))
            /\ NumeralValue(Tail(suffix)) > 0
    THEN ChangesAgo(NumeralValue(Tail(suffix)))
    ELSE NoVersionSpec

\* C20: ParseVersionedPath splits its input at the last "@": a positive
\* integer suffix gives the prefix and Exact(n), a negative integer suffix
\* the prefix and ChangesAgo(|n|) with |n| > 0, prev or previous the prefix
\* and Previous; every other input (no "@", a suffix that is no integer,
\* the suffix 0) is returned whole, with no selector.
C20_SplitsAtLastAt ==
    Parsed
    => /\ (\A i \in 1..Len(query.input) : query.input[i] # "@")
          => (query.path = query.input /\ query.spec = NoVersionSpec)
       /\ \A i \in 1..Len(query.input) :
            SplitsAt(query.input, i)
            => LET suffix == SubSeq(query.input, i + 1, Len(query.input))
               IN /\ query.spec = Selector(suffix)
                  /\ query.path = IF Selector(suffix) = NoVersionSpec
                                  THEN query.input
                                  ELSE SubSeq(query.input, 1, i - 1)
       /\ query.spec.IsChangesAgo => query.spec.ChangesAgo > 0

\* A path with two "@" and a negative suffix has been parsed.
C20_Witness ==
    /\ Parsed
    /\ query.input = <<"@", "@", "-", "2">>
    /\ query.path = <<"@">>
    /\ query.spec = ChangesAgo(2)

Resolved == query.op = "resolve" /\ query.pc = "done"

\* The path names a directory with secrets and asks for an exact version,
\* or names a single secret and asks for the state some changes ago.
ShapeMismatch ==
    \/ query.path = Directory /\ HistoryPaths(hist) # {} /\ query.spec.Version > 0
    \/ query.path # Directory /\ query.spec.IsChangesAgo

\* C18 as stated: a selector that does not fit the shape of its target is
\* rejected with an error, before any store call is issued.
C18_RejectedBeforeAnyCall ==
    (Resolved /\ ShapeMismatch)
    => (query.err # "" /\ query.calls = <<>>)

\* C18: a selector that does not fit the shape of its target always gets an
\* error.  When the IsDirectory list is answered the error is the
\* selector error, and it is returned after that one list call, which
\* tells the shape of the target, and before any metadata, history or data
\* call.
C18_RejectedAfterShapeCall ==
    (Resolved /\ ShapeMismatch)
    => /\ query.err # ""
       /\ query.result = NoVersions
       /\ query.fail = <<"none">>
          => /\ query.err = "invalid selector"
             /\ query.calls = <<"IsDirectory">>
             /\ query.reads = {}

\* An exact version has been asked of a directory that holds secrets with
\* that version.
C18_Witness ==
    /\ Resolved /\ query.fail = <<"none">>
    /\ query.input = Directory \o <<"@", "2">>
    /\ \A k \in HistKeys : Retained(hist, k, 2)
    /\ query.err = "invalid selector"

\* ------------------------------------------------ claims: failed store calls

\* The store call that was to fail has been issued: a read of a version of
\* secret k, or the history or metadata call for a listed secret k.
FailedForKey ==
    /\ query.op \in {"state", "prev"} /\ query.pc = "done"
    /\ \E k \in HistoryPaths(hist) :
        \/ query.fail = <<"read", k>> /\ k \in query.reads
        \/ query.fail \in {<<"history", k>>, <<"metadata", k>>}

\* C19: in GetPrevVersions and GetStateAtChangesAgo a store read that fails
\* for one secret aborts the operation: an error is returned and no result
\* map.
C19_FailedReadAborts ==
    FailedForKey => (query.err # "" /\ query.result = NoVersions)

\* ---------------------------------------------- claims: secret comparison

Compared == query.op = "compare" /\ query.pc = "done"

KeysOf(entries) == {entries[i].Key : i \in 1..Len(entries)}

\* The keys both maps hold, with %v forms that differ or agree.
InBoth(secrets1, secrets2) == DOMAIN secrets1 \cap DOMAIN secrets2
Differing(secrets1, secrets2) ==
    {key \in InBoth(secrets1, secrets2) :
        Sprintf(secrets1[key]) # Sprintf(secrets2[key])}

\* C21: CompareSecrets(A, B) puts every key of A union B in exactly one
\* class: OnlyInFirst for a key of A alone, OnlyInSecond for a key of B
\* alone, Changed for a key of both whose values differ in their string
\* forms, the Unchanged count for the others; the four sizes add up to the
\* number of keys of A union B.
C21_EveryKeyInOneClass ==
    Compared
    => LET A == query.secrets1
           B == query.secrets2
           d == query.diff
       IN /\ KeysOf(d.OnlyInFirst) = DOMAIN A \ DOMAIN B
          /\ Len(d.OnlyInFirst) = Cardinality(DOMAIN A \ DOMAIN B)
          /\ KeysOf(d.OnlyInSecond) = DOMAIN B \ DOMAIN A
          /\ Len(d.OnlyInSecond) = Cardinality(DOMAIN B \ DOMAIN A)
          /\ KeysOf(d.Changed) = Differing(A, B)
          /\ Len(d.Changed) = Cardinality(Differing(A, B))
          /\ d.Unchanged = Cardinality(InBoth(A, B) \ Differing(A, B))
          /\ Len(d.OnlyInFirst) + Len(d.OnlyInSecond) + Len(d.Changed)
                + d.Unchanged = Cardinality(DOMAIN A \cup DOMAIN B)

\* A comparison with a key of the first map alone, a changed key, and a key
\* that counts as unchanged although one side holds a string and the other
\* a number.
C21_Witness ==
    /\ Compared
    /\ Len(query.diff.OnlyInFirst) = 1 /\ Len(query.diff.Changed) = 1
    /\ query.diff.Unchanged = 1
    /\ \E key \in InBoth(query.secrets1, query.secrets2) :
        /\ query.secrets1[key] # query.secrets2[key]
        /\ key \notin KeysOf(query.diff.Changed)

\* C22: CompareSecrets(A, A) has empty OnlyInFirst, OnlyInSecond and
\* Changed lists and an Unchanged count equal to the number of keys of A.
C22_SelfComparisonUnchanged ==
    (Compared /\ query.secrets1 = query.secrets2)
    => /\ query.diff.OnlyInFirst = <<>>
       /\ query.diff.OnlyInSecond = <<>>
       /\ query.diff.Changed = <<>>
       /\ query.diff.Unchanged = Cardinality(DOMAIN query.secrets1)

\* A map of three keys, nil among its values, has been compared with
\* itself.
C22_Witness ==
    /\ Compared /\ query.secrets1 = query.secrets2
    /\ DOMAIN query.secrets1 = DiffKeys
    /\ \E key \in DiffKeys : query.secrets1[key] = Nil
    /\ query.diff.Unchanged = 3

\* The entries of a list are in ascending order of their keys.
SortedByKey(entries) ==
    \A i, j \in 1..Len(entries) :
        i < j => KeyRank(entries[i].Key) < KeyRank(entries[j].Key)

\* C23: OnlyInFirst of CompareSecrets(A, B) is OnlyInSecond of
\* CompareSecrets(B, A) and the other way round, with the same keys, values
\* and order, the order being that of the keys, whatever order the ranges
\* over the maps take.
C23_SwappedArguments ==
    Compared
    => /\ SortedByKey(query.diff.OnlyInFirst)
       /\ SortedByKey(query.diff.OnlyInSecond)
       /\ \A order1, order2 \in RangeOrders :
            LET swapped == CompareSecrets(query.secrets2, query.secrets1,
                                          order1, order2)
            IN /\ query.diff.OnlyInFirst = swapped.OnlyInSecond
               /\ query.diff.OnlyInSecond = swapped.OnlyInFirst

\* A comparison with two keys in the first map alone and one key in the
\* second map alone.
C23_Witness ==
    /\ Compared
    /\ Len(query.diff.OnlyInFirst) = 2 /\ Len(query.diff.OnlyInSecond) = 1

\* ------------------------------------------------- claims: path operations

\* The operation of the one client of SpecOps.
TheOp == op["c1"]

\* C24: for a single client, Add on a path where a secret exists returns an
\* error and leaves the value and the version of the secret as they were,
\* and Update on a path where no secret exists returns an error and
\* creates nothing.
C24_AddAndUpdateRefuse ==
    /\ (TheOp.name = "Add" /\ SecretExists(TheOp.start, TheOp.dst))
        => /\ tree = TheOp.start
           /\ TheOp.pc = "done" => TheOp.err # ""
    /\ (TheOp.name = "Update" /\ ~SecretExists(TheOp.start, TheOp.dst))
        => /\ tree = TheOp.start
           /\ TheOp.pc = "done" => TheOp.err # ""

\* Add has found the secret, at version 2, and has returned.
C24_Witness ==
    /\ TheOp.name = "Add" /\ TheOp.pc = "done"
    /\ TheOp.err = "secret already exists"
    /\ tree[TheOp.dst].version = 2

\* C25: when two clients call Add on the same path, absent at both calls,
\* at most one Add returns success, however their existence checks and
\* writes interleave.
C25_AtMostOneAddSucceeds ==
    ~ /\ \A c \in Clients :
            /\ op[c].name = "Add" /\ op[c].pc = "done" /\ op[c].err = ""
            /\ ~SecretExists(op[c].start, op[c].dst)
      /\ op["c1"].dst = op["c2"].dst

\* The paths an operation is to write: the destination, or for a
\* directory the destination of every secret under the source.
DestinationPaths(o) ==
    LET rels == ListSecretPathsRecursive(o.start, o.src)
    IN IF o.name \in {"Copy", "Move"} \/ rels = <<>> THEN {o.dst}
       ELSE {o.dst \o rels[i] : i \in 1..Len(rels)}

Copies == {"Copy", "CopyRecursive", "Move", "MoveRecursive"}

\* C26: for a single client, when a destination path of Copy,
\* CopyRecursive, Move or MoveRecursive holds a secret, the operation
\* returns an error and writes and deletes no secret, at the source or at
\* a destination.
C26_DestinationNeverOverwritten ==
    (/\ TheOp.name \in Copies
     /\ \E path \in DestinationPaths(TheOp) : SecretExists(TheOp.start, path))
    => /\ tree = TheOp.start
       /\ TheOp.pc = "done" => TheOp.err # ""

\* MoveRecursive of two secrets has returned with the second destination
\* taken and the first one free.
C26_Witness ==
    /\ TheOp.name = "MoveRecursive" /\ TheOp.pc = "done"
    /\ TheOp.src # TheOp.dst
    /\ Len(TheOp.secretPaths) = 2
    /\ ~SecretExists(TheOp.start, TheOp.dst \o TheOp.secretPaths[1])
    /\ SecretExists(TheOp.start, TheOp.dst \o TheOp.secretPaths[2])
    /\ TheOp.err = "destination already exists"

\* The secrets a move is to move, each with the path it is moved to.
Moved(o) ==
    LET rels == ListSecretPathsRecursive(o.start, o.src)
    IN IF o.name = "Move"
       THEN IF SecretExists(o.start, o.src) THEN {<<o.src, o.dst>>} ELSE {}
       ELSE {<<o.src \o rels[i], o.dst \o rels[i]>> : i \in 1..Len(rels)}

HoldsData(store, path, data) ==
    SecretExists(store, path) /\ store[path].data = data

\* C29: in every state of Move and MoveRecursive, whichever writes and
\* deletes fail (rollback deletes among them), every secret that was under
\* the source at the call has its data at its source path or at its
\* destination path.
C29_MoveKeepsData ==
    TheOp.name \in {"Move", "MoveRecursive"}
    => \A pair \in Moved(TheOp) :
        \/ HoldsData(tree, pair[1], TheOp.start[pair[1]].data)
        \/ HoldsData(tree, pair[2], TheOp.start[pair[1]].data)

\* MoveRecursive of two secrets has returned after the delete of one source
\* failed: one secret is at its destination only, the other at both paths.
C29_Witness ==
    /\ TheOp.name = "MoveRecursive" /\ TheOp.pc = "done"
    /\ TheOp.err = "move partially completed"
    /\ TheOp.deletedCount = 1 /\ Len(TheOp.secretPaths) = 2
    /\ \E pair \in Moved(TheOp) :
        ~SecretExists(tree, pair[1]) /\ SecretExists(tree, pair[2])

\* The keys of the secrets at or under a path, each with the hash of its
\* value.
KeysUnder(store, path) ==
    {e \in UNION {{[hash |-> hashValue(store[at].data.m[i][2]),
                    fullPath |-> <<at, store[at].data.m[i][1]>>] :
                        i \in 1..LenOfData(store[at].data)} :
                  at \in {q \in KvPaths : SecretExists(store, q)}} :
        e.fullPath[1] = path \/ IsUnder(e.fullPath[1], path)}

PathsOfGroup(group) == {group[i] : i \in 1..Len(group)}

\* C28: FindDuplicates(path) returns one group for each value that two or
\* more distinct secret keys under path hold: every group lists at least
\* two distinct paths, all with the same value, and no path twice.
C28_GroupsOfDistinctPaths ==
    (TheOp.name = "FindDuplicates" /\ TheOp.pc = "done" /\ TheOp.err = "")
    => LET held == KeysUnder(tree, TheOp.src)
           WithHash(hash) == {e.fullPath : e \in {h \in held : h.hash = hash}}
       IN /\ \A group \in TheOp.groups :
                /\ Cardinality(PathsOfGroup(group)) >= 2
                /\ Cardinality(PathsOfGroup(group)) = Len(group)
                /\ \E e \in held : PathsOfGroup(group) = WithHash(e.hash)
          /\ \A e \in held :
                Cardinality(WithHash(e.hash)) >= 2
                => \E group \in TheOp.groups :
                        PathsOfGroup(group) = WithHash(e.hash)

\* ------------------------------------------------ claims: snapshot round trip

\* The data a secret held when CreateSnapshot recorded it.  Every secret of
\* ClientData is a map with the one field "value", which SecretValue took
\* out: the data is that field wrapped again.
CapturedData(entry) == Wrap(entry.Value)

\* C27: CreateSnapshot, then any writes and deletes under the path, then
\* RestoreSnapshot with DeleteExtra=true in which every store call is
\* answered and during which nothing else is written: every secret of the
\* snapshot holds the data it held at the capture, and every secret
\* created since is gone.
C27_RoundTrip ==
    (/\ pc = "done" /\ FullRestore(opts) /\ ~failed
     /\ raced = NoRaced)
    => \A k \in Keys :
        IF snapshot[k].in
        THEN live[k].version > 0 /\ live[k].data = CapturedData(snapshot[k])
        ELSE live[k].version = 0

\* C30: with Verify=true, WriteSecret is issued for a key that exists live
\* only when the metadata read of the key succeeded and gave the version
\* the snapshot records: with no other client writing, the key is then at
\* the snapshot's version when the write is issued.
C30_WrittenOnlyWhenConfirmed ==
    (pc = "write" /\ opts.Verify /\ exists)
    => live[relPath].version = snapshot[relPath].Version

====
